---- MODULE Spec2Model ----
(***************************************************************************)
(* A model of the chipper CHIP-8 / SuperChip / XO-Chip virtual machine     *)
(* (src/src/chip8.rs, src/src/profile.rs, src/src/emulator.rs).            *)
(*                                                                         *)
(* The variable chip8 is the Chip8 struct.  Two encodings are used to keep *)
(* the struct small without changing what it holds:                        *)
(*   memory  the byte array, as the function from its non-zero cells to    *)
(*           their values (a cell outside the domain holds 0);             *)
(*   gfx     the bit vector, as the set of the offsets whose bit is set;   *)
(*   key     the 16-bit array, as the set of the indices whose bit is set; *)
(*   Option<T>  as a set: {} is None, {v} is Some(v).                      *)
(* The field panic is the message the process aborted with ("none" while   *)
(* it runs): a Rust panic unwinds out of the driver loop and ends the run. *)
(*                                                                         *)
(* The driver (Emulator) adds: loaded, whether load_rom has run; cycles,   *)
(* the calls of emulate_cycle so far; batch, the calls of emulate_cycle    *)
(* made by the current tick_run (0 once refresh has run); canvas, the set  *)
(* of framebuffer offsets the hardware last painted white; action, the     *)
(* Option<Action> that tick_run or refresh last returned to the loop of    *)
(* Emulator::process ("Quit" ends the loop).                               *)
(***************************************************************************)
EXTENDS Integers, Sequences, FiniteSets, TLC

VARIABLES chip8, loaded, cycles, canvas, batch, action

vars == <<chip8, loaded, cycles, canvas, batch, action>>

(***************************************************************************)
(* Constants of the program.                                               *)
(***************************************************************************)
CHIP8_FONTSET ==
  << 240, 144, 144, 144, 240,   32,  96,  32,  32, 112,
     240,  16, 240, 128, 240,  240,  16, 240,  16, 240,
     144, 144, 240,  16,  16,  240, 128, 240,  16, 240,
     240, 128, 240, 144, 240,  240,  16,  32,  64,  64,
     240, 144, 240, 144, 240,  240, 144, 240,  16, 240,
     240, 144, 240, 144, 144,  224, 144, 224, 144, 224,
     240, 128, 128, 128, 240,  224, 144, 144, 144, 224,
     240, 128, 240, 128, 240,  240, 128, 240, 128, 128 >>

NUMBER_OF_KEYS == 16
NUMBER_OF_REGISTERS == 16
STACK_SIZE == 16
ROM_START == 512
U16_LIMIT == 65536

Targets == {"Chip8", "SuperChipLegacy", "SuperChip", "XoChip"}

Profile(target) ==
  CASE target = "Chip8" ->
         [screen_width |-> 64, screen_height |-> 32, lores_display_wait |-> TRUE,
          default_screen_scale |-> 12, memory_capacity |-> 4096,
          user_register_count |-> 0]
    [] target = "SuperChipLegacy" ->
         [screen_width |-> 128, screen_height |-> 64, lores_display_wait |-> TRUE,
          default_screen_scale |-> 6, memory_capacity |-> 4096,
          user_register_count |-> 8]
    [] target = "SuperChip" ->
         [screen_width |-> 128, screen_height |-> 64, lores_display_wait |-> FALSE,
          default_screen_scale |-> 6, memory_capacity |-> 4096,
          user_register_count |-> 8]
    [] target = "XoChip" ->
         [screen_width |-> 128, screen_height |-> 64, lores_display_wait |-> FALSE,
          default_screen_scale |-> 6, memory_capacity |-> 65536,
          user_register_count |-> 16]

IsSc(c) == c.target \in {"SuperChipLegacy", "SuperChip"}
IsXo(c) == c.target = "XoChip"

(***************************************************************************)
(* Bit operations on unsigned bytes.                                       *)
(***************************************************************************)
RECURSIVE BitAnd(_, _)
BitAnd(a, b) ==
  IF a = 0 \/ b = 0 THEN 0
  ELSE (a % 2) * (b % 2) + 2 * BitAnd(a \div 2, b \div 2)

RECURSIVE BitOr(_, _)
BitOr(a, b) ==
  IF a = 0 THEN b
  ELSE IF b = 0 THEN a
  ELSE (IF a % 2 = 1 \/ b % 2 = 1 THEN 1 ELSE 0) + 2 * BitOr(a \div 2, b \div 2)

RECURSIVE BitXor(_, _)
BitXor(a, b) ==
  IF a = 0 THEN b
  ELSE IF b = 0 THEN a
  ELSE ((a + b) % 2) + 2 * BitXor(a \div 2, b \div 2)

\* bit n (0 = least significant) of v
Bit(v, n) == (v \div (2 ^ n)) % 2

(***************************************************************************)
(* Opcode fields.                                                          *)
(***************************************************************************)
register_x(o) == (o \div 256) % 16
register_y(o) == (o \div 16) % 16
opcode_value(o) == o % 256
HighNibble(o) == o \div 4096
LowNibble(o) == o % 16
Address(o) == o % 4096

(***************************************************************************)
(* Memory: reads and writes of the boxed byte array.  An index at or past  *)
(* memory_capacity panics (Rust bounds check).                             *)
(***************************************************************************)
InMemory(c, a) == a >= 0 /\ a < Profile(c.target).memory_capacity

MemRead(c, a) == IF a \in DOMAIN c.memory THEN c.memory[a] ELSE 0

MemStore(mem, a, v) ==
  IF v = 0 THEN [x \in (DOMAIN mem) \ {a} |-> mem[x]]
  ELSE [x \in (DOMAIN mem) \cup {a} |-> IF x = a THEN v ELSE mem[x]]

Panic(c, why) == [c EXCEPT !.panic = why]

Running(c) == c.panic = "none"

(***************************************************************************)
(* Chip8::new                                                              *)
(***************************************************************************)
New(target) ==
  [ target |-> target,
    memory |-> [a \in 0 .. (Len(CHIP8_FONTSET) - 1) |-> CHIP8_FONTSET[a + 1]],
    registers |-> [r \in 0 .. (NUMBER_OF_REGISTERS - 1) |-> 0],
    user_registers |-> [r \in 0 .. (Profile(target).user_register_count - 1) |-> 0],
    i |-> 0,
    pc |-> ROM_START,
    delay_timer |-> 0,
    sound_timer |-> 0,
    stack |-> [s \in 0 .. (STACK_SIZE - 1) |-> 0],
    sp |-> 0,
    gfx |-> {},
    key |-> {},
    key_wait |-> << {}, {} >>,
    draw |-> TRUE,
    hires |-> FALSE,
    panic |-> "none" ]

(***************************************************************************)
(* Chip8::load_rom: copies rom_data to memory[0x200 ..]; the slice panics  *)
(* when the ROM does not fit.  A ROM is a sequence of bytes.               *)
(***************************************************************************)
CopyIn(mem, at, bytes) ==
  LET span == at .. (at + Len(bytes) - 1)
      nonzero == {a \in span : bytes[a - at + 1] # 0}
  IN [a \in ((DOMAIN mem) \ span) \cup nonzero |->
        IF a \in span THEN bytes[a - at + 1] ELSE mem[a]]

load_rom(c, rom_data) ==
  IF ROM_START + Len(rom_data) > Profile(c.target).memory_capacity
  THEN Panic(c, "index out of bounds")
  ELSE [c EXCEPT !.memory = CopyIn(c.memory, ROM_START, rom_data)]

(***************************************************************************)
(* Chip8::update_timers, the accessors, Chip8::set_key                     *)
(***************************************************************************)
SaturatingSub1(v) == IF v > 0 THEN v - 1 ELSE 0

\* mutant: the timers wrap below 0
update_timers_wrapping(c) ==
  [c EXCEPT !.delay_timer = (c.delay_timer + 255) % 256,
            !.sound_timer = (c.sound_timer + 255) % 256]

update_timers(c) ==
  [c EXCEPT !.delay_timer = SaturatingSub1(c.delay_timer),
            !.sound_timer = SaturatingSub1(c.sound_timer)]

\* mutant: the tone stops one tick early
audio_sound_above_one(c) == c.sound_timer > 1

audio_sound(c) == c.sound_timer > 0

graphics_needs_refresh(c) == c.draw

graphics_clear_refresh(c) == [c EXCEPT !.draw = FALSE]

\* mutant: the scale depends on the resolution mode only
resolution_scale_ignores_target(c) == IF c.hires THEN 1 ELSE 2

resolution_scale(c) == IF c.hires \/ c.target = "Chip8" THEN 1 ELSE 2

\* mutant: the wait is captured by the press itself
set_key_capture_on_press(c, key_num, pressed) ==
  LET kw ==
        IF c.key_wait[1] = {FALSE} /\ c.key_wait[2] = {} /\ pressed
        THEN << {TRUE}, {key_num} >>
        ELSE c.key_wait
  IN [c EXCEPT !.key_wait = kw,
               !.key = IF pressed THEN c.key \cup {key_num} ELSE c.key \ {key_num}]

\* mutant: a later press replaces the key the wait has recorded
set_key_latest_press(c, key_num, pressed) ==
  LET kw ==
        IF c.key_wait[1] = {FALSE} /\ c.key_wait[2] # {} /\ ~pressed
           /\ c.key_wait[2] = {key_num}
        THEN << {TRUE}, c.key_wait[2] >>
        ELSE IF c.key_wait[1] = {FALSE} /\ pressed
        THEN << {FALSE}, {key_num} >>
        ELSE c.key_wait
  IN [c EXCEPT !.key_wait = kw,
               !.key = IF key_num >= NUMBER_OF_KEYS THEN c.key
                       ELSE IF pressed THEN c.key \cup {key_num}
                       ELSE c.key \ {key_num}]

set_key(c, key_num, pressed) ==
  LET kw ==
        IF c.key_wait[1] = {FALSE} /\ c.key_wait[2] # {} /\ ~pressed
           /\ c.key_wait[2] = {key_num}
        THEN << {TRUE}, c.key_wait[2] >>
        ELSE IF c.key_wait[1] = {FALSE} /\ c.key_wait[2] = {} /\ pressed
        THEN << {FALSE}, {key_num} >>
        ELSE c.key_wait
  IN [c EXCEPT !.key_wait = kw,
               !.key = IF key_num >= NUMBER_OF_KEYS THEN c.key
                       ELSE IF pressed THEN c.key \cup {key_num}
                       ELSE c.key \ {key_num}]

\* Chip8::key_scan_mapping: the host scancodes of the sixteen keys
key_scan_mapping ==
  ("_1" :> 1) @@ ("_2" :> 2) @@ ("_3" :> 3) @@ ("_4" :> 12)
    @@ ("Q" :> 4) @@ ("W" :> 5) @@ ("E" :> 6) @@ ("R" :> 13)
    @@ ("A" :> 7) @@ ("S" :> 8) @@ ("D" :> 9) @@ ("F" :> 14)
    @@ ("Z" :> 10) @@ ("X" :> 0) @@ ("C" :> 11) @@ ("V" :> 15)

\* the host events: Event::Quit, Event::KeyDown and Event::KeyUp with their
\* scancode and repeat fields, and any other event
QuitEvent == [kind |-> "Quit", scancode |-> {}, repeat |-> FALSE]

HostEvent(kind, code, repeat) == [kind |-> kind, scancode |-> {code}, repeat |-> repeat]

OtherEvent == [kind |-> "Other", scancode |-> {}, repeat |-> FALSE]

\* mutant: key-up events are not handled
handle_key_ignoring_key_up(c, event) ==
  IF \/ event.kind = "Quit"
     \/ event.kind = "KeyDown" /\ event.scancode = {"Escape"}
  THEN [c |-> c, action |-> "Quit"]
  ELSE IF /\ event.kind = "KeyDown"
          /\ ~event.repeat
          /\ event.scancode # {}
          /\ event.scancode \subseteq DOMAIN key_scan_mapping
  THEN [c |-> set_key(c, key_scan_mapping[CHOOSE code \in event.scancode : TRUE], TRUE),
        action |-> "None"]
  ELSE [c |-> c, action |-> "None"]

\* Chip8::handle_key: the struct afterwards and the Option<Action> returned
handle_key(c, event) ==
  IF \/ event.kind = "Quit"
     \/ event.kind = "KeyDown" /\ event.scancode = {"Escape"}
  THEN [c |-> c, action |-> "Quit"]
  ELSE IF /\ event.kind \in {"KeyDown", "KeyUp"}
          /\ ~event.repeat
          /\ event.scancode # {}
          /\ event.scancode \subseteq DOMAIN key_scan_mapping
  THEN [c |-> set_key(c, key_scan_mapping[CHOOSE code \in event.scancode : TRUE],
                      event.kind = "KeyDown"),
        action |-> "None"]
  ELSE [c |-> c, action |-> "None"]

(***************************************************************************)
(* Instruction handlers.  A handler that returns a program-counter delta   *)
(* yields [c |-> the struct afterwards, d |-> the delta]; the four that    *)
(* rewrite pc yield the struct.  oc is the build's overflow-checks setting *)
(* (debug: an integer overflow panics; release: it wraps).                 *)
(***************************************************************************)
Ret(c, d) == [c |-> c, d |-> d]

SetReg(c, r, v) == [c EXCEPT !.registers[r] = v]

\* a u16 assignment self.f = v where v was computed by a u16 addition
U16Assign(c, f, v, oc) ==
  IF v < U16_LIMIT THEN [c EXCEPT ![f] = v]
  ELSE IF oc THEN Panic(c, "attempt to add with overflow")
  ELSE [c EXCEPT ![f] = v % U16_LIMIT]

\* mutant: the return resumes one byte, not one instruction, after the call
c8_flow_return_plus_one(c, oc) ==
  IF c.sp = 0 THEN Panic(c, "stack pointer too low")
  ELSE U16Assign([c EXCEPT !.sp = c.sp - 1], "pc", c.stack[c.sp - 1] + 1, oc)

c8_flow_return(c, oc) ==
  IF c.sp = 0 THEN Panic(c, "stack pointer too low")
  ELSE U16Assign([c EXCEPT !.sp = c.sp - 1], "pc", c.stack[c.sp - 1] + 2, oc)

\* mutant: the jump is followed by the post-increment
c8_flow_goto_post_increment(c, o) == [c EXCEPT !.pc = Address(o) + 2]

c8_flow_goto(c, o) == [c EXCEPT !.pc = Address(o)]

c8_flow_gosub(c, o) ==
  IF c.sp >= STACK_SIZE THEN Panic(c, "index out of bounds")
  ELSE LET pushed == [c EXCEPT !.stack[c.sp] = c.pc, !.sp = c.sp + 1]
       IN IF ~(pushed.sp < STACK_SIZE) THEN Panic(pushed, "stack pointer too high")
          ELSE [pushed EXCEPT !.pc = Address(o)]

\* mutant: every target adds V0
c8_flow_jump_from_v0(c, o) == [c EXCEPT !.pc = Address(o) + c.registers[0]]

c8_flow_jump(c, o) ==
  [c EXCEPT !.pc = Address(o)
                   + (IF c.target \in {"Chip8", "XoChip"} THEN c.registers[0]
                      ELSE c.registers[register_x(o)])]

\* mutant: the screen is cleared but no refresh is requested
c8_display_clear_no_flag(c) == Ret([c EXCEPT !.gfx = {}], 2)

c8_display_clear(c) == Ret([c EXCEPT !.gfx = {}, !.draw = TRUE], 2)

c8_cond_skip_eq_num(c, o) ==
  Ret(c, IF c.registers[register_x(o)] = opcode_value(o) THEN 4 ELSE 2)

c8_cond_skip_neq_num(c, o) ==
  Ret(c, IF c.registers[register_x(o)] = opcode_value(o) THEN 2 ELSE 4)

c8_cond_skip_eq_reg(c, o) ==
  Ret(c, IF c.registers[register_x(o)] = c.registers[register_y(o)] THEN 4 ELSE 2)

c8_const_set_num(c, o) == Ret(SetReg(c, register_x(o), opcode_value(o)), 2)

\* mutant: the add-immediate records its carry
c8_const_add_num_with_carry(c, o) ==
  LET sum == c.registers[register_x(o)] + opcode_value(o)
  IN Ret(SetReg(SetReg(c, register_x(o), sum % 256), 15, sum \div 256), 2)

c8_const_add_num(c, o) ==
  Ret(SetReg(c, register_x(o), (c.registers[register_x(o)] + opcode_value(o)) % 256), 2)

c8_assign_set_reg(c, o) ==
  Ret(SetReg(c, register_x(o), c.registers[register_y(o)]), 2)

\* mutant: every target resets register 15
BitopFlag_every_target(c) == SetReg(c, 15, 0)

\* 8XY1/2/3: the CHIP-8 target resets register 15 after the operation
BitopFlag(c) == IF c.target = "Chip8" THEN SetReg(c, 15, 0) ELSE c

c8_bitop_or_reg(c, o) ==
  Ret(BitopFlag(SetReg(c, register_x(o),
        BitOr(c.registers[register_x(o)], c.registers[register_y(o)]))), 2)

c8_bitop_and_reg(c, o) ==
  Ret(BitopFlag(SetReg(c, register_x(o),
        BitAnd(c.registers[register_x(o)], c.registers[register_y(o)]))), 2)

c8_bitop_xor_reg(c, o) ==
  Ret(BitopFlag(SetReg(c, register_x(o),
        BitXor(c.registers[register_x(o)], c.registers[register_y(o)]))), 2)

\* mutant: the sum is truncated but the carry never reaches VF
c8_math_add_reg_no_carry(c, o) ==
  LET sum == c.registers[register_x(o)] + c.registers[register_y(o)]
  IN Ret(SetReg(c, register_x(o), sum % 256), 2)

c8_math_add_reg(c, o) ==
  LET sum == c.registers[register_x(o)] + c.registers[register_y(o)]
  IN Ret(SetReg(SetReg(c, register_x(o), sum % 256), 15, IF sum > 255 THEN 1 ELSE 0), 2)

\* mutant: VF receives the borrow instead of its negation
c8_math_sub_reg_borrow_flag(c, o) ==
  LET x == c.registers[register_x(o)]
      y == c.registers[register_y(o)]
  IN Ret(SetReg(SetReg(c, register_x(o), (x - y) % 256), 15, IF x < y THEN 1 ELSE 0), 2)

c8_math_sub_reg(c, o) ==
  LET x == c.registers[register_x(o)]
      y == c.registers[register_y(o)]
  IN Ret(SetReg(SetReg(c, register_x(o), (x - y) % 256), 15, IF x < y THEN 0 ELSE 1), 2)

\* mutant: every target shifts VX in place
ShiftSource_in_place(c, o) == c.registers[register_x(o)]

ShiftSource(c, o) ==
  IF c.target \in {"Chip8", "XoChip"} THEN c.registers[register_y(o)]
  ELSE c.registers[register_x(o)]

c8_bitop_shr_reg(c, o) ==
  LET val == ShiftSource(c, o)
  IN Ret(SetReg(SetReg(c, register_x(o), val \div 2), 15, val % 2), 2)

c8_math_neg_reg(c, o) ==
  LET x == c.registers[register_x(o)]
      y == c.registers[register_y(o)]
  IN Ret(SetReg(SetReg(c, register_x(o), (y - x) % 256), 15, IF y < x THEN 0 ELSE 1), 2)

c8_bitop_shl_reg(c, o) ==
  LET val == ShiftSource(c, o)
  IN Ret(SetReg(SetReg(c, register_x(o), (val * 2) % 256), 15, Bit(val, 7)), 2)

c8_cond_skipifneq_reg(c, o) ==
  Ret(c, IF c.registers[register_x(o)] = c.registers[register_y(o)] THEN 2 ELSE 4)

c8_mem_store(c, o) == Ret([c EXCEPT !.i = Address(o)], 2)

c8_rand_and_reg(c, o, rnd) ==
  Ret(SetReg(c, register_x(o), BitAnd(opcode_value(o), rnd)), 2)

KeyIndexed(c, o) == c.registers[register_x(o)]

c8_key_pressedskip(c, o) ==
  IF KeyIndexed(c, o) >= NUMBER_OF_KEYS THEN Ret(Panic(c, "index out of bounds"), 0)
  ELSE Ret(c, IF KeyIndexed(c, o) \in c.key THEN 4 ELSE 2)

c8_key_notpressedskip(c, o) ==
  IF KeyIndexed(c, o) >= NUMBER_OF_KEYS THEN Ret(Panic(c, "index out of bounds"), 0)
  ELSE Ret(c, IF KeyIndexed(c, o) \in c.key THEN 2 ELSE 4)

\* mutant: the armed wait returns a delta of 2 instead of 0
c8_key_wait_advancing(c, o) ==
  IF c.key_wait[1] = {TRUE} /\ c.key_wait[2] # {}
  THEN Ret(SetReg([c EXCEPT !.key_wait = << {}, {} >>], register_x(o),
                  CHOOSE k \in c.key_wait[2] : TRUE), 2)
  ELSE IF c.key_wait = << {}, {} >>
  THEN Ret([c EXCEPT !.key_wait = << {FALSE}, {} >>], 0)
  ELSE Ret(c, 2)

c8_key_wait(c, o) ==
  IF c.key_wait[1] = {TRUE} /\ c.key_wait[2] # {}
  THEN Ret(SetReg([c EXCEPT !.key_wait = << {}, {} >>], register_x(o),
                  CHOOSE k \in c.key_wait[2] : TRUE), 2)
  ELSE IF c.key_wait = << {}, {} >>
  THEN Ret([c EXCEPT !.key_wait = << {FALSE}, {} >>], 0)
  ELSE Ret(c, 0)

c8_timer_delay_store(c, o) == Ret(SetReg(c, register_x(o), c.delay_timer), 2)

c8_timer_delay_set(c, o) == Ret([c EXCEPT !.delay_timer = c.registers[register_x(o)]], 2)

c8_timer_sound_set(c, o) == Ret([c EXCEPT !.sound_timer = c.registers[register_x(o)]], 2)

c8_mem_addi(c, o, oc) ==
  LET added == U16Assign(c, "i", c.i + c.registers[register_x(o)], oc)
  IN IF ~Running(added) THEN Ret(added, 0)
     ELSE IF added.i > 4095
     THEN Ret(SetReg([added EXCEPT !.i = added.i - 4096], 15, 1), 2)
     ELSE Ret(added, 2)

\* mutant: the glyph index is not reduced to its low nibble
c8_mem_spriteaddr_unmasked(c, o) ==
  Ret([c EXCEPT !.i = 5 * c.registers[register_x(o)]], 2)

c8_mem_spriteaddr(c, o) ==
  Ret([c EXCEPT !.i = 5 * (c.registers[register_x(o)] % 16)], 2)

sc_hires_font(c, o) ==
  LET value == c.registers[register_x(o)]
  IN Ret(IF value <= 9 THEN [c EXCEPT !.i = 10 * value] ELSE c, 2)

\* one checked store memory[a] = v, a computed as self.i + k in u16
StoreAt(c, a, v, oc) ==
  IF ~Running(c) THEN c
  ELSE IF a >= U16_LIMIT /\ oc THEN Panic(c, "attempt to add with overflow")
  ELSE IF ~InMemory(c, a % U16_LIMIT) THEN Panic(c, "index out of bounds")
  ELSE [c EXCEPT !.memory = MemStore(c.memory, a % U16_LIMIT, v)]

\* mutant: the tens are taken without reducing the value below 100 first
c8_bcd_store_tens_unreduced(c, o, oc) ==
  LET val == c.registers[register_x(o)]
      ones == val % 10
      tens == (val - ones) \div 10
      hundreds == val \div 100
  IN Ret(StoreAt(StoreAt(StoreAt(c, c.i, hundreds, oc), c.i + 1, tens, oc),
                 c.i + 2, ones, oc), 2)

c8_bcd_store(c, o, oc) ==
  LET val == c.registers[register_x(o)]
      ones == val % 10
      tens == ((val % 100) - ones) \div 10
      hundreds == (val - (tens + ones)) \div 100
  IN Ret(StoreAt(StoreAt(StoreAt(c, c.i, hundreds, oc), c.i + 1, tens, oc),
                 c.i + 2, ones, oc), 2)

\* mutant: only the CHIP-8 target advances I
AutoIncrement_chip8_only(c, reg_num, oc) ==
  IF c.target = "Chip8" THEN U16Assign(c, "i", c.i + reg_num + 1, oc)
  ELSE c

\* FX55/FX65: I advances by X + 1 on CHIP-8 and XO-Chip only
AutoIncrement(c, reg_num, oc) ==
  IF c.target \in {"Chip8", "XoChip"} THEN U16Assign(c, "i", c.i + reg_num + 1, oc)
  ELSE c

c8_mem_reg_dump(c, o, oc) ==
  LET reg_num == register_x(o)
  IN IF ~InMemory(c, c.i + reg_num) THEN Ret(Panic(c, "index out of bounds"), 0)
     ELSE Ret(AutoIncrement(
                [c EXCEPT !.memory =
                   CopyIn(c.memory, c.i, [k \in 1 .. (reg_num + 1) |-> c.registers[k - 1]])],
                reg_num, oc), 2)

\* mutant: the registers are filled from memory[I + 1 ..]
c8_mem_reg_load_off_by_one(c, o, oc) ==
  LET reg_num == register_x(o)
  IN IF ~InMemory(c, c.i + reg_num + 1) THEN Ret(Panic(c, "index out of bounds"), 0)
     ELSE Ret(AutoIncrement(
                [c EXCEPT !.registers =
                   [r \in 0 .. (NUMBER_OF_REGISTERS - 1) |->
                      IF r <= reg_num THEN MemRead(c, c.i + r + 1) ELSE c.registers[r]]],
                reg_num, oc), 2)

c8_mem_reg_load(c, o, oc) ==
  LET reg_num == register_x(o)
  IN IF c.i + reg_num >= U16_LIMIT
     THEN Ret(Panic(c, IF oc THEN "attempt to add with overflow"
                       ELSE "index out of bounds"), 0)
     ELSE IF ~InMemory(c, c.i + reg_num) THEN Ret(Panic(c, "index out of bounds"), 0)
     ELSE Ret(AutoIncrement(
                [c EXCEPT !.registers =
                   [r \in 0 .. (NUMBER_OF_REGISTERS - 1) |->
                      IF r <= reg_num THEN MemRead(c, c.i + r) ELSE c.registers[r]]],
                reg_num, oc), 2)

\* mutant: every target clears the screen on a mode change
sc_display_low_always_clearing(c) ==
  Ret(IF c.hires
      THEN [c EXCEPT !.gfx = {}, !.hires = FALSE, !.draw = TRUE]
      ELSE c, 2)

sc_display_low(c) ==
  Ret(IF c.hires
      THEN [c EXCEPT !.gfx = IF c.target = "XoChip" THEN {} ELSE c.gfx,
                     !.hires = FALSE, !.draw = TRUE]
      ELSE c, 2)

sc_display_high(c) ==
  Ret(IF ~c.hires
      THEN [c EXCEPT !.gfx = IF c.target = "XoChip" THEN {} ELSE c.gfx,
                     !.hires = TRUE, !.draw = TRUE]
      ELSE c, 2)

\* the function the dispatch calls for FX85: registers 0..=X into the user bank
sc_flag_load(c, o) ==
  LET n == register_x(o)
  IN Ret(IF n < Profile(c.target).user_register_count
         THEN [c EXCEPT !.user_registers =
                 [r \in DOMAIN c.user_registers |->
                    IF r <= n THEN c.registers[r] ELSE c.user_registers[r]]]
         ELSE c, 2)

\* mutant: an X beyond the bank copies the flags the bank has
sc_flag_store_clamped(c, o) ==
  LET n == register_x(o)
  IN Ret([c EXCEPT !.registers =
            [r \in 0 .. (NUMBER_OF_REGISTERS - 1) |->
               IF r <= n /\ r \in DOMAIN c.user_registers
               THEN c.user_registers[r] ELSE c.registers[r]]], 2)

\* the function the dispatch calls for FX75: the user bank into registers 0..=X
sc_flag_store(c, o) ==
  LET n == register_x(o)
  IN Ret(IF n < Profile(c.target).user_register_count
         THEN [c EXCEPT !.registers =
                 [r \in 0 .. (NUMBER_OF_REGISTERS - 1) |->
                    IF r <= n THEN c.user_registers[r] ELSE c.registers[r]]]
         ELSE c, 2)

(***************************************************************************)
(* Chip8::draw_sprite.  The loops visit, in order, the rows yline that are *)
(* not clipped and in each the columns xline that are not clipped; a row's *)
(* byte is memory[i + yline].  size <= width and data_count <= height, so  *)
(* no cell is visited twice and the sequence of XORs is the symmetric      *)
(* difference with the set of visited cells whose source bit is set.       *)
(* The result is [gfx, unset, panic].                                      *)
(***************************************************************************)
SpriteRows(c, y_pos, height, data_count) ==
  {yline \in 0 .. (data_count - 1) : c.target = "XoChip" \/ y_pos + yline < height}

\* mutant: no column is clipped
SpriteCols_unclipped(c, x_pos, width, size) == 0 .. (size - 1)

SpriteCols(c, x_pos, width, size) ==
  {xline \in 0 .. (size - 1) : c.target = "XoChip" \/ x_pos + xline < width}

\* mutant: the sprite row is read least significant bit first
SourceBit_lsb_first(mem_value, xline) == Bit(mem_value, xline % 8)

\* the source bit tested by mem_value & 0x80u8.rotate_right(xline)
SourceBit(mem_value, xline) == Bit(mem_value, 7 - (xline % 8))

SpriteCells(c, size, x, y, width, height, data_count) ==
  LET x_pos == x % width
      y_pos == y % height
  IN { ((IF c.target = "XoChip" THEN (y_pos + yline) % height ELSE y_pos + yline)
          * Profile(c.target).screen_width)
       + (IF c.target = "XoChip" THEN (x_pos + xline) % width ELSE x_pos + xline) :
         <<yline, xline>> \in
           { p \in SpriteRows(c, y_pos, height, data_count)
                     \X SpriteCols(c, x_pos, width, size) :
               SourceBit(MemRead(c, c.i + p[1]), p[2]) = 1 } }

\* mutant: sprite pixels are OR-ed into the framebuffer
draw_sprite_or_pixels(c, size, x, y, width, height, data_count) ==
  LET rows == SpriteRows(c, y % height, height, data_count)
      cells == SpriteCells(c, size, x, y, width, height, data_count)
  IN IF \E yline \in rows : ~InMemory(c, c.i + yline)
     THEN [gfx |-> c.gfx, unset |-> FALSE, panic |-> TRUE]
     ELSE [gfx |-> c.gfx \cup cells,
           unset |-> (cells \cap c.gfx) # {},
           panic |-> FALSE]

draw_sprite(c, size, x, y, width, height, data_count) ==
  LET rows == SpriteRows(c, y % height, height, data_count)
      cells == SpriteCells(c, size, x, y, width, height, data_count)
  IN IF \E yline \in rows : ~InMemory(c, c.i + yline)
     THEN [gfx |-> c.gfx, unset |-> FALSE, panic |-> TRUE]
     ELSE [gfx |-> (c.gfx \ cells) \cup (cells \ c.gfx),
           unset |-> (cells \cap c.gfx) # {},
           panic |-> FALSE]

c8_draw_sprite(c, o) ==
  LET data_count == LowNibble(o)
      lores == (IsSc(c) \/ IsXo(c)) /\ ~c.hires
      w == IF lores THEN Profile(c.target).screen_width \div 2
           ELSE Profile(c.target).screen_width
      h == IF lores THEN Profile(c.target).screen_height \div 2
           ELSE Profile(c.target).screen_height
      vx == c.registers[register_x(o)]
      vy == c.registers[register_y(o)]
      r == IF (IsSc(c) \/ IsXo(c)) /\ c.hires /\ data_count = 0
           THEN draw_sprite(c, 16, vx, vy, w, h, 16)
           ELSE draw_sprite(c, 8, vx, vy, w, h, data_count)
  IN IF r.panic THEN Ret(Panic(c, "index out of bounds"), 0)
     ELSE Ret(SetReg([c EXCEPT !.gfx = r.gfx, !.draw = TRUE], 15,
                     IF r.unset THEN 1 ELSE 0), 2)

(***************************************************************************)
(* Scrolling: copy_within on the bit vector, then the vacated bits filled. *)
(***************************************************************************)
ScreenBits(c) == Profile(c.target).screen_width * Profile(c.target).screen_height

sc_scroll_down(c, o) ==
  LET shift == LowNibble(o) * Profile(c.target).screen_width
      copied == {p + shift : p \in {q \in c.gfx : q < ScreenBits(c) - shift}}
                  \cup {q \in c.gfx : q < shift}
  IN Ret([c EXCEPT !.gfx = {q \in copied : q >= shift}, !.draw = TRUE], 2)

xo_scroll_up(c, o) ==
  LET shift == LowNibble(o) * Profile(c.target).screen_width
      copied == {p - shift : p \in {q \in c.gfx : q >= shift}}
                  \cup {q \in c.gfx : q >= ScreenBits(c) - shift}
  IN Ret([c EXCEPT !.gfx = {q \in copied : q < ScreenBits(c) - shift},
                   !.draw = TRUE], 2)

sc_scroll_right_no_flag(c) ==
  LET width == Profile(c.target).screen_width
      copied == {p + 4 : p \in {q \in c.gfx : q < ScreenBits(c) - 4}}
                  \cup {q \in c.gfx : q < 4}
  IN Ret([c EXCEPT !.gfx = {q \in copied : q % width >= 4}], 2)

sc_scroll_right(c) ==
  LET width == Profile(c.target).screen_width
      copied == {p + 4 : p \in {q \in c.gfx : q < ScreenBits(c) - 4}}
                  \cup {q \in c.gfx : q < 4}
  IN Ret([c EXCEPT !.gfx = {q \in copied : q % width >= 4}, !.draw = TRUE], 2)

\* mutant: the columns vacated by the scroll are not cleared
sc_scroll_left_leaking(c) ==
  LET copied == {p - 4 : p \in {q \in c.gfx : q >= 4}}
                  \cup {q \in c.gfx : q >= ScreenBits(c) - 4}
  IN Ret([c EXCEPT !.gfx = copied, !.draw = TRUE], 2)

sc_scroll_left(c) ==
  LET width == Profile(c.target).screen_width
      copied == {p - 4 : p \in {q \in c.gfx : q >= 4}}
                  \cup {q \in c.gfx : q >= ScreenBits(c) - 4}
  IN Ret([c EXCEPT !.gfx = {q \in copied : q % width < width - 4}, !.draw = TRUE], 2)

(***************************************************************************)
(* Chip8::emulate_cycle.  Decode is the match of the dispatch, in the      *)
(* order of its arms: the name of the handler an opcode is routed to,      *)
(* "quit" for 00FD, "ignored" for the 0NNN arm and "unknown" for the       *)
(* panicking arm.                                                          *)
(***************************************************************************)
Decode(target, o) ==
  LET sc == target \in {"SuperChipLegacy", "SuperChip"}
      xo == target = "XoChip"
      hi == HighNibble(o)
      lo == LowNibble(o)
      nn == opcode_value(o)
  IN CASE o = 253 /\ (sc \/ xo) -> "quit"
       [] o = 238 -> "c8_flow_return"
       [] hi = 1 -> "c8_flow_goto"
       [] hi = 2 -> "c8_flow_gosub"
       [] hi = 11 -> "c8_flow_jump"
       [] o = 224 -> "c8_display_clear"
       [] o \div 16 = 12 /\ (sc \/ xo) -> "sc_scroll_down"
       [] o \div 16 = 13 /\ xo -> "xo_scroll_up"
       [] o = 251 /\ (sc \/ xo) -> "sc_scroll_right"
       [] o = 252 /\ (sc \/ xo) -> "sc_scroll_left"
       [] o = 254 /\ (sc \/ xo) -> "sc_display_low"
       [] o = 255 /\ (sc \/ xo) -> "sc_display_high"
       [] hi = 0 -> "ignored"
       [] hi = 3 -> "c8_cond_skip_eq_num"
       [] hi = 4 -> "c8_cond_skip_neq_num"
       [] hi = 5 /\ lo = 0 -> "c8_cond_skip_eq_reg"
       [] hi = 6 -> "c8_const_set_num"
       [] hi = 7 -> "c8_const_add_num"
       [] hi = 8 /\ lo = 0 -> "c8_assign_set_reg"
       [] hi = 8 /\ lo = 1 -> "c8_bitop_or_reg"
       [] hi = 8 /\ lo = 2 -> "c8_bitop_and_reg"
       [] hi = 8 /\ lo = 3 -> "c8_bitop_xor_reg"
       [] hi = 8 /\ lo = 4 -> "c8_math_add_reg"
       [] hi = 8 /\ lo = 5 -> "c8_math_sub_reg"
       [] hi = 8 /\ lo = 6 -> "c8_bitop_shr_reg"
       [] hi = 8 /\ lo = 7 -> "c8_math_neg_reg"
       [] hi = 8 /\ lo = 14 -> "c8_bitop_shl_reg"
       [] hi = 9 /\ lo = 0 -> "c8_cond_skipifneq_reg"
       [] hi = 10 -> "c8_mem_store"
       [] hi = 12 -> "c8_rand_and_reg"
       [] hi = 13 -> "c8_draw_sprite"
       [] hi = 14 /\ nn = 158 -> "c8_key_pressedskip"
       [] hi = 14 /\ nn = 161 -> "c8_key_notpressedskip"
       [] hi = 15 /\ nn = 10 -> "c8_key_wait"
       [] hi = 15 /\ nn = 7 -> "c8_timer_delay_store"
       [] hi = 15 /\ nn = 21 -> "c8_timer_delay_set"
       [] hi = 15 /\ nn = 24 -> "c8_timer_sound_set"
       [] hi = 15 /\ nn = 30 -> "c8_mem_addi"
       [] hi = 15 /\ nn = 41 -> "c8_mem_spriteaddr"
       [] hi = 15 /\ nn = 48 /\ (sc \/ xo) -> "sc_hires_font"
       [] hi = 15 /\ nn = 51 -> "c8_bcd_store"
       [] hi = 15 /\ nn = 85 -> "c8_mem_reg_dump"
       [] hi = 15 /\ nn = 101 -> "c8_mem_reg_load"
       [] hi = 15 /\ nn = 117 /\ (sc \/ xo) -> "sc_flag_store"
       [] hi = 15 /\ nn = 133 /\ (sc \/ xo) -> "sc_flag_load"
       [] OTHER -> "unknown"

\* mutant: an opcode no arm matches is skipped instead of panicking
UnknownOpcode_skipped(c, o) == Ret(c, 2)

\* the last arm: o => panic!("unknown opcode {o:x?}")
UnknownOpcode(c, o) == Ret(Panic(c, "unknown opcode"), 0)

\* the arms of `self.pc += match opcode { ... }`
Execute(c, o, rnd, oc) ==
  LET h == Decode(c.target, o)
  IN CASE h = "c8_display_clear" -> c8_display_clear(c)
       [] h = "sc_scroll_down" -> sc_scroll_down(c, o)
       [] h = "xo_scroll_up" -> xo_scroll_up(c, o)
       [] h = "sc_scroll_right" -> sc_scroll_right(c)
       [] h = "sc_scroll_left" -> sc_scroll_left(c)
       [] h = "sc_display_low" -> sc_display_low(c)
       [] h = "sc_display_high" -> sc_display_high(c)
       [] h = "ignored" -> Ret(c, 2)
       [] h = "c8_cond_skip_eq_num" -> c8_cond_skip_eq_num(c, o)
       [] h = "c8_cond_skip_neq_num" -> c8_cond_skip_neq_num(c, o)
       [] h = "c8_cond_skip_eq_reg" -> c8_cond_skip_eq_reg(c, o)
       [] h = "c8_const_set_num" -> c8_const_set_num(c, o)
       [] h = "c8_const_add_num" -> c8_const_add_num(c, o)
       [] h = "c8_assign_set_reg" -> c8_assign_set_reg(c, o)
       [] h = "c8_bitop_or_reg" -> c8_bitop_or_reg(c, o)
       [] h = "c8_bitop_and_reg" -> c8_bitop_and_reg(c, o)
       [] h = "c8_bitop_xor_reg" -> c8_bitop_xor_reg(c, o)
       [] h = "c8_math_add_reg" -> c8_math_add_reg(c, o)
       [] h = "c8_math_sub_reg" -> c8_math_sub_reg(c, o)
       [] h = "c8_bitop_shr_reg" -> c8_bitop_shr_reg(c, o)
       [] h = "c8_math_neg_reg" -> c8_math_neg_reg(c, o)
       [] h = "c8_bitop_shl_reg" -> c8_bitop_shl_reg(c, o)
       [] h = "c8_cond_skipifneq_reg" -> c8_cond_skipifneq_reg(c, o)
       [] h = "c8_mem_store" -> c8_mem_store(c, o)
       [] h = "c8_rand_and_reg" -> c8_rand_and_reg(c, o, rnd)
       [] h = "c8_draw_sprite" -> c8_draw_sprite(c, o)
       [] h = "c8_key_pressedskip" -> c8_key_pressedskip(c, o)
       [] h = "c8_key_notpressedskip" -> c8_key_notpressedskip(c, o)
       [] h = "c8_key_wait" -> c8_key_wait(c, o)
       [] h = "c8_timer_delay_store" -> c8_timer_delay_store(c, o)
       [] h = "c8_timer_delay_set" -> c8_timer_delay_set(c, o)
       [] h = "c8_timer_sound_set" -> c8_timer_sound_set(c, o)
       [] h = "c8_mem_addi" -> c8_mem_addi(c, o, oc)
       [] h = "c8_mem_spriteaddr" -> c8_mem_spriteaddr(c, o)
       [] h = "sc_hires_font" -> sc_hires_font(c, o)
       [] h = "c8_bcd_store" -> c8_bcd_store(c, o, oc)
       [] h = "c8_mem_reg_dump" -> c8_mem_reg_dump(c, o, oc)
       [] h = "c8_mem_reg_load" -> c8_mem_reg_load(c, o, oc)
       [] h = "sc_flag_store" -> sc_flag_store(c, o)
       [] h = "sc_flag_load" -> sc_flag_load(c, o)
       [] OTHER -> UnknownOpcode(c, o)

\* the fetch reads memory[pc] and memory[pc + 1] (pc + 1 is a u16 addition)
FetchFaults(c, oc) ==
  \/ ~InMemory(c, c.pc)
  \/ c.pc + 1 >= U16_LIMIT /\ oc
  \/ ~InMemory(c, (c.pc + 1) % U16_LIMIT)

FetchPanic(c, oc) ==
  IF InMemory(c, c.pc) /\ c.pc + 1 >= U16_LIMIT /\ oc
  THEN "attempt to add with overflow"
  ELSE "index out of bounds"

Opcode(c) == MemRead(c, c.pc) * 256 + MemRead(c, (c.pc + 1) % U16_LIMIT)

emulate_cycle(c, rnd, oc) ==
  IF FetchFaults(c, oc) THEN Panic(c, FetchPanic(c, oc))
  ELSE LET o == Opcode(c)
           h == Decode(c.target, o)
       IN CASE h = "quit" -> c
            [] h = "c8_flow_return" -> c8_flow_return(c, oc)
            [] h = "c8_flow_goto" -> c8_flow_goto(c, o)
            [] h = "c8_flow_gosub" -> c8_flow_gosub(c, o)
            [] h = "c8_flow_jump" -> c8_flow_jump(c, o)
            [] OTHER ->
                 LET r == Execute(c, o, rnd, oc)
                 IN IF ~Running(r.c) THEN r.c
                    ELSE U16Assign(r.c, "pc", r.c.pc + r.d, oc)

\* the Option<Action> emulate_cycle returns
emulate_cycle_action(c, oc) ==
  IF ~FetchFaults(c, oc) /\ Decode(c.target, Opcode(c)) = "quit" THEN "Quit" ELSE "None"

(***************************************************************************)
(* The run: Emulator::process loads the ROM once, then loops tick_run (a   *)
(* batch of emulate_cycle calls) and refresh (update_timers, the hand-off  *)
(* of the framebuffer, then handle_key for each event the host queued).    *)
(***************************************************************************)
\* the for loop of tick_run: at most this many cycles in one batch
TICK_CYCLES == 20

\* Hardware::init_canvas clears the window to black
Init ==
  /\ chip8 \in {New(t) : t \in Targets}
  /\ loaded = FALSE
  /\ cycles = 0
  /\ canvas = {}
  /\ batch = 0
  /\ action = "None"

LoadRom(roms) ==
  /\ ~loaded
  /\ \E rom_data \in roms : chip8' = load_rom(chip8, rom_data)
  /\ loaded' = TRUE
  /\ UNCHANGED <<cycles, canvas, batch, action>>

\* mutant: the wait applies in high resolution too
DisplayWait_any_resolution(c) ==
  Profile(c.target).lores_display_wait /\ graphics_needs_refresh(c)

\* tick_run leaves its loop after a cycle that left a low-resolution frame to
\* show on a target that waits for the display
DisplayWait(c) ==
  Profile(c.target).lores_display_wait /\ ~c.hires /\ graphics_needs_refresh(c)

\* random bytes the generator may return (CXNN)
RandBytes == {0, 165, 255}

\* the Option<Action> tick_run returns: None, whatever its calls of
\* emulate_cycle returned
tick_run_action == "None"

\* mutant: the loop of tick_run has no bound
Cycle_unbounded(max_cycles) ==
  /\ loaded
  /\ Running(chip8)
  /\ action = "None"
  /\ cycles < max_cycles
  /\ batch = 0 \/ ~DisplayWait(chip8)
  /\ \E rnd \in RandBytes, oc \in BOOLEAN : chip8' = emulate_cycle(chip8, rnd, oc)
  /\ cycles' = cycles + 1
  /\ batch' = batch + 1
  /\ action' = tick_run_action
  /\ UNCHANGED <<loaded, canvas>>

\* one pass of the loop of tick_run: the first of a batch, or a further one
\* when the loop did not break (the frame's time may run out after any cycle)
Cycle(max_cycles) ==
  /\ loaded
  /\ Running(chip8)
  /\ action = "None"
  /\ cycles < max_cycles
  /\ batch < TICK_CYCLES
  /\ batch = 0 \/ ~DisplayWait(chip8)
  /\ \E rnd \in RandBytes, oc \in BOOLEAN : chip8' = emulate_cycle(chip8, rnd, oc)
  /\ cycles' = cycles + 1
  /\ batch' = batch + 1
  /\ action' = tick_run_action
  /\ UNCHANGED <<loaded, canvas>>

\* Emulator::refresh up to the event loop: the timers tick, and a framebuffer
\* that needs a refresh is handed to the display and the flag cleared
refresh(c) ==
  LET ticked == update_timers(c)
  IN IF graphics_needs_refresh(ticked) THEN graphics_clear_refresh(ticked) ELSE ticked

\* Hardware::refresh_graphics paints every cell of the framebuffer
refresh_graphics(c) == c.gfx

\* refresh runs once tick_run has returned, after a batch of at least one cycle
Refresh ==
  /\ loaded
  /\ Running(chip8)
  /\ action = "None"
  /\ batch >= 1
  /\ chip8' = refresh(chip8)
  /\ canvas' = IF graphics_needs_refresh(update_timers(chip8))
               THEN refresh_graphics(chip8) ELSE canvas
  /\ batch' = 0
  /\ UNCHANGED <<loaded, cycles, action>>

\* the end of refresh: handle_key for an event polled from the host's queue;
\* find_map stops at the first event that yields an action
HandleEvent(events) ==
  /\ loaded
  /\ Running(chip8)
  /\ action = "None"
  /\ cycles >= 1
  /\ batch = 0
  /\ \E event \in events :
       /\ chip8' = handle_key(chip8, event).c
       /\ action' = handle_key(chip8, event).action
  /\ UNCHANGED <<loaded, cycles, canvas, batch>>

\* the scancode the host reports for the key numbered key_num
ScancodeOf(key_num) ==
  CHOOSE code \in DOMAIN key_scan_mapping : key_scan_mapping[code] = key_num

\* the non-repeat key-down and key-up events of the keys numbered in keys
HandleKey(keys) ==
  HandleEvent({HostEvent(kind, ScancodeOf(key_num), FALSE) :
                 kind \in {"KeyDown", "KeyUp"}, key_num \in keys})

(***************************************************************************)
(* ROM images.  A program is a sequence of opcodes, stored big-endian.     *)
(***************************************************************************)
Program(ops) ==
  [k \in 1 .. (2 * Len(ops)) |->
     IF k % 2 = 1 THEN ops[(k + 1) \div 2] \div 256 ELSE ops[k \div 2] % 256]

\* the sequences of 1 .. n opcodes drawn from the set ops
RECURSIVE OpSeqs(_, _)
OpSeqs(ops, n) ==
  IF n = 0 THEN {}
  ELSE {<<o>> : o \in ops}
         \cup {<<o>> \o rest : o \in ops, rest \in OpSeqs(ops, n - 1)}

MaxKey == 1
Keys == 0 .. MaxKey

(***************************************************************************)
(* Spec: programs that wait for a key (FX0A), with timers running.         *)
(***************************************************************************)
MaxCycles == 7

\* 0x200: V0 = 2; delay = V0; sound = V0; 0x206: wait into VX; 0x208: goto 0x206
WaitRoms ==
  {Program(<<24578, 61461, 61464, 61450 + 256 * x, 4614>>) : x \in {0, 3, 15}}
    \cup {Program(<<61450 + 256 * x, 4608>>) : x \in {1, 15}}

Next ==
  \/ LoadRom(WaitRoms)
  \/ Cycle(MaxCycles)
  \/ Refresh
  \/ HandleKey(Keys)

Spec == Init /\ [][Next]_vars

(***************************************************************************)
(* SpecDecode: one-instruction programs: every opcode 0x0000 .. 0x0FFF, and *)
(* for every other high nibble every low byte, with X drawn from DecodeXs. *)
(***************************************************************************)
MaxCyclesDecode == 1

DecodeXs == {0, 15}

DecodeOpcodes ==
  (0 .. 4095)
    \cup {hi * 4096 + x * 256 + nn : hi \in 1 .. 15, x \in DecodeXs, nn \in 0 .. 255}

DecodeRoms == {Program(<<o>>) : o \in DecodeOpcodes}

NextDecode ==
  \/ LoadRom(DecodeRoms)
  \/ Cycle(MaxCyclesDecode)
  \/ Refresh
  \/ HandleKey({0})

SpecDecode == Init /\ [][NextDecode]_vars

(***************************************************************************)
(* SpecFlow: programs of jumps, calls and returns.                         *)
(***************************************************************************)
MaxCyclesFlow == 17
MaxFlowLen == 2

\* 0000, 00EE, 1000, 1200, 1321, 1FFE, 2200, 2202, 2204, 3000, 6003, B202
FlowOps == {0, 238, 4096, 4608, 4897, 8190, 8704, 8706, 8708, 12288, 24579, 45570}

\* 0x200: call 0x204; 0x202: goto 0x202; 0x204: call 0x208; 0x206: return;
\* 0x208: return
NestedCallsRom == Program(<<8708, 4610, 8712, 238, 238>>)

FlowRoms == {Program(ops) : ops \in OpSeqs(FlowOps, MaxFlowLen)} \cup {NestedCallsRom}

NextFlow ==
  \/ LoadRom(FlowRoms)
  \/ Cycle(MaxCyclesFlow)
  \/ Refresh
  \/ HandleKey({0})

SpecFlow == Init /\ [][NextFlow]_vars

(***************************************************************************)
(* SpecMem: programs that load the address register and read or write      *)
(* memory, index the keypad or jump to the end of memory.                  *)
(***************************************************************************)
MaxCyclesMem == 3
MaxMemLen == 2

\* 1FFF, 6010, 60FF, A000, AFFF, D001, E09E, E0A1, F01E, F029, F030, F033,
\* F055, F165
MemOps == {8191, 24592, 24831, 40960, 45055, 53249, 57502, 57505, 61470, 61481,
           61488, 61491, 61525, 61797}

MemRoms == {Program(ops) : ops \in OpSeqs(MemOps, MaxMemLen)}

NextMem ==
  \/ LoadRom(MemRoms)
  \/ Cycle(MaxCyclesMem)
  \/ Refresh
  \/ HandleKey({0})

SpecMem == Init /\ [][NextMem]_vars

(***************************************************************************)
(* SpecArith: 6Xa, 6Yb, 8XY4 for every pair of registers.                  *)
(***************************************************************************)
MaxCyclesArith == 3

ArithValues == {0, 1, 128, 255}

\* 6Xa = 0x6000 + 0x100 X + a;  8XY4 = 0x8004 + 0x100 X + 0x10 Y
ArithRoms ==
  {Program(<<24576 + 256 * x + a, 24576 + 256 * y + b, 32772 + 256 * x + 16 * y>>) :
     x \in 0 .. (NUMBER_OF_REGISTERS - 1), y \in 0 .. (NUMBER_OF_REGISTERS - 1),
     a \in ArithValues, b \in ArithValues}

NextArith ==
  \/ LoadRom(ArithRoms)
  \/ Cycle(MaxCyclesArith)
  \/ Refresh
  \/ HandleKey({0})

SpecArith == Init /\ [][NextArith]_vars

(***************************************************************************)
(* SpecSub: 6Xa, 6Yb, then 8XY5 or 8XY7, for every pair of registers.      *)
(***************************************************************************)
MaxCyclesSub == 3

\* 8XY5 = 0x8005 + 0x100 X + 0x10 Y;  8XY7 = 0x8007 + 0x100 X + 0x10 Y
SubRoms ==
  {Program(<<24576 + 256 * x + a, 24576 + 256 * y + b, op + 256 * x + 16 * y>>) :
     x \in 0 .. (NUMBER_OF_REGISTERS - 1), y \in 0 .. (NUMBER_OF_REGISTERS - 1),
     a \in ArithValues, b \in ArithValues, op \in {32773, 32775}}

NextSub ==
  \/ LoadRom(SubRoms)
  \/ Cycle(MaxCyclesSub)
  \/ Refresh
  \/ HandleKey({0})

SpecSub == Init /\ [][NextSub]_vars

(***************************************************************************)
(* SpecRegs: V0, V1, VF are set, FX55 stores V0..VX at I, V0 and VF are    *)
(* overwritten, I is set again and FX65 loads V0..VX back.                 *)
(***************************************************************************)
MaxCyclesRegs == 9

RegsXs == {0, 1, 15}

\* 0x300, 0xFF0 (I + 15 is the last byte of a 4096-byte memory), 0xFFF
RegsAddresses == {768, 4080, 4095}

\* 60aa 61bb 6Fee ANNN FX55 6077 6F77 ANNN FX65
RegsRoms ==
  {Program(<<24576 + a, 24832 + b, 28416 + e, 40960 + nnn, 61525 + 256 * x,
             24695, 28535, 40960 + nnn, 61541 + 256 * x>>) :
     a \in {1, 255}, b \in {0, 2}, e \in {0, 3}, nnn \in RegsAddresses, x \in RegsXs}

NextRegs ==
  \/ LoadRom(RegsRoms)
  \/ Cycle(MaxCyclesRegs)
  \/ Refresh
  \/ HandleKey({0})

SpecRegs == Init /\ [][NextRegs]_vars

(***************************************************************************)
(* SpecDraw: an optional switch to high resolution, a position, a sprite   *)
(* address, the same DXYN twice and 00E0 twice.                            *)
(***************************************************************************)
MaxCyclesDraw == 8

DrawXs == {0, 125}
DrawYs == {0, 62, 100}

\* the font glyph "0", the program's own bytes, zeroes, the end of a 4096-byte
\* memory
DrawAddresses == {0, 512, 768, 4094}

DrawRowCounts == {0, 1, 5, 15}

\* 0000|00FF 60xx 6Yyy ANNN D0YN D0YN 00E0 00E0, Y in {1, 15}
DrawRoms ==
  {Program(<<m, 24576 + x, 24576 + 256 * ry + y, 40960 + nnn,
             53248 + 16 * ry + n, 53248 + 16 * ry + n, 224, 224>>) :
     m \in {0, 255}, x \in DrawXs, ry \in {1, 15}, y \in DrawYs,
     nnn \in DrawAddresses, n \in DrawRowCounts}

NextDraw ==
  \/ LoadRom(DrawRoms)
  \/ Cycle(MaxCyclesDraw)
  \/ Refresh
  \/ HandleKey({0})

SpecDraw == Init /\ [][NextDraw]_vars

(***************************************************************************)
(* SpecFlags: V0 and V1 are set, then FX75 and FX85 run in either order    *)
(* with V0 overwritten in between.                                         *)
(***************************************************************************)
MaxCyclesFlags == 5

FlagsXs == {0, 1, 7, 8, 15}

\* 60aa 61bb FX75|FX85 6077 FX85|FX75
FlagsRoms ==
  {Program(<<24576 + a, 24832 + b, first + 256 * x, 24695, (61557 + 61573 - first) + 256 * x>>) :
     a \in {1, 255}, b \in {0, 2}, first \in {61557, 61573}, x \in FlagsXs}

NextFlags ==
  \/ LoadRom(FlagsRoms)
  \/ Cycle(MaxCyclesFlags)
  \/ Refresh
  \/ HandleKey({0})

SpecFlags == Init /\ [][NextFlags]_vars

(***************************************************************************)
(* SpecFont: a register is set, I is set, FX29 looks up the glyph.         *)
(***************************************************************************)
MaxCyclesFont == 3

FontXs == {0, 15}

\* glyph indices in range (0, 5, 15) and out of range (16, 0x1A, 255)
FontValues == {0, 5, 15, 16, 26, 255}

\* 0x032 (the address of glyph "A") and 0x300
FontAddresses == {50, 768}

\* 6Xvv ANNN FX29
FontRoms ==
  {Program(<<24576 + 256 * x + v, 40960 + nnn, 61481 + 256 * x>>) :
     x \in FontXs, v \in FontValues, nnn \in FontAddresses}

NextFont ==
  \/ LoadRom(FontRoms)
  \/ Cycle(MaxCyclesFont)
  \/ Refresh
  \/ HandleKey({0})

SpecFont == Init /\ [][NextFont]_vars

(***************************************************************************)
(* SpecDisplay: an optional switch to high resolution, the glyph "0" drawn *)
(* at the origin, then two instructions of the display family.             *)
(***************************************************************************)
MaxCyclesDisplay == 5

\* 00C0 00C1 (scroll down), 00D1 (scroll up), 00E0 (clear), 00FB 00FC (scroll
\* right, left), 00FE 00FF (low, high resolution), D005 (draw again)
DisplayOps == {192, 193, 209, 224, 251, 252, 254, 255, 53253}

\* 0000|00FF A000 D005 op op
DisplayRoms ==
  {Program(<<m, 40960, 53253, a, b>>) :
     m \in {0, 255}, a \in DisplayOps, b \in DisplayOps}

NextDisplay ==
  \/ LoadRom(DisplayRoms)
  \/ Cycle(MaxCyclesDisplay)
  \/ Refresh
  \/ HandleKey({0})

SpecDisplay == Init /\ [][NextDisplay]_vars

(***************************************************************************)
(* SpecTimers: both timers set from registers, then a loop that reads the  *)
(* delay timer while the driver ticks.                                     *)
(***************************************************************************)
MaxCyclesTimers == 8

TimerValues == {0, 1, 2, 3, 255}

\* 0x200: 61vv F115 62ww F218; 0x208: F007 (V0 = delay_timer); 0x20A: 1208
TimerRoms ==
  {Program(<<24832 + v, 61717, 25088 + w, 61976, 61447, 4616>>) :
     v \in TimerValues, w \in TimerValues}

NextTimers ==
  \/ LoadRom(TimerRoms)
  \/ Cycle(MaxCyclesTimers)
  \/ Refresh
  \/ HandleKey({0})

SpecTimers == Init /\ [][NextTimers]_vars

(***************************************************************************)
(* SpecDriver: programs that loop for longer than one batch of tick_run,   *)
(* one with the delay timer running, one that clears the screen each turn. *)
(***************************************************************************)
MaxCyclesDriver == 22

\* 0x200: 6003 F015; 0x204: 1204      and      0x200: 00E0 1200
DriverRoms == {Program(<<24579, 61461, 4612>>), Program(<<224, 4608>>)}

NextDriver ==
  \/ LoadRom(DriverRoms)
  \/ Cycle(MaxCyclesDriver)
  \/ Refresh
  \/ HandleKey(Keys)

SpecDriver == Init /\ [][NextDriver]_vars

(***************************************************************************)
(* SpecAlu: register 15, VX and VY loaded, then an add-immediate, a        *)
(* bitwise operation or a shift.                                           *)
(***************************************************************************)
MaxCyclesAlu == 4

\* the (X, Y) of the instruction
AluRegs == {<<0, 1>>, <<1, 1>>, <<1, 15>>, <<15, 1>>}

AluValues == {0, 1, 128, 255}

\* what register 15 holds beforehand
AluFlags == {0, 7}

\* 7X01 7XFF 8XY1 8XY2 8XY3 8XY6 8XYE
AluOps(x, y) ==
  {28672 + 256 * x + nn : nn \in {1, 255}}
    \cup {32768 + 256 * x + 16 * y + k : k \in {1, 2, 3, 6, 14}}

\* 6Fff 6Xaa 6Ybb op
AluRoms ==
  UNION {{Program(<<28416 + f, 24576 + 256 * r[1] + a, 24576 + 256 * r[2] + b, op>>) :
            f \in AluFlags, a \in AluValues, b \in AluValues,
            op \in AluOps(r[1], r[2])} : r \in AluRegs}

NextAlu ==
  \/ LoadRom(AluRoms)
  \/ Cycle(MaxCyclesAlu)
  \/ Refresh
  \/ HandleKey({0})

SpecAlu == Init /\ [][NextAlu]_vars

(***************************************************************************)
(* SpecAddi: FX1E from an address set by ANNN, and FX1E after a run of     *)
(* register dumps whose auto-increment has carried I upwards.              *)
(***************************************************************************)
MaxCyclesAddi == 246

\* the number of FF55 in a row
AddiDumps == 241

AddiXs == {0, 15}
AddiValues == {0, 1, 255}
AddiAddresses == {0, 3841, 4095}

\* 6Xvv ANNN FX1E FFFF (the last one, unknown, ends the run)
AddiShortRoms ==
  {Program(<<24576 + 256 * x + v, 40960 + nnn, 61470 + 256 * x, 65535>>) :
     x \in AddiXs, v \in AddiValues, nnn \in AddiAddresses}

\* 6FFF AFFF FF55 ... FF55 FF1E FFFF
AddiLongRom ==
  Program(<<28671, 45055>> \o [k \in 1 .. AddiDumps |-> 65365] \o <<65310, 65535>>)

NextAddi ==
  \/ LoadRom(AddiShortRoms \cup {AddiLongRom})
  \/ Cycle(MaxCyclesAddi)
  \/ Refresh
  \/ HandleKey({0})

SpecAddi == Init /\ [][NextAddi]_vars

(***************************************************************************)
(* SpecJump: V0 and VX loaded, then the jump with offset BXNN.             *)
(***************************************************************************)
MaxCyclesJump == 3

JumpXs == {1, 15}
JumpValues == {0, 3, 255}
JumpLowBytes == {0, 255}

\* 60aa 6Xbb BXNN
JumpRoms ==
  {Program(<<24576 + a, 24576 + 256 * x + b, 45056 + 256 * x + nn>>) :
     a \in JumpValues, x \in JumpXs, b \in JumpValues, nn \in JumpLowBytes}

NextJump ==
  \/ LoadRom(JumpRoms)
  \/ Cycle(MaxCyclesJump)
  \/ Refresh
  \/ HandleKey({0})

SpecJump == Init /\ [][NextJump]_vars

(***************************************************************************)
(* SpecSkip: VX and VY loaded, then one of the six skip instructions, with *)
(* keys 0 and 1 pressed or released by the host.                           *)
(***************************************************************************)
MaxCyclesSkip == 3

\* the (X, Y) of the instruction
SkipRegs == {<<0, 1>>, <<15, 0>>}

\* 16 is the first value that numbers no key
SkipValues == {0, 1, 16}

\* 3X00 3X01 4X00 4X01 5XY0 9XY0 EX9E EXA1
SkipOps(x, y) ==
  {12288 + 256 * x + nn : nn \in {0, 1}}
    \cup {16384 + 256 * x + nn : nn \in {0, 1}}
    \cup {20480 + 256 * x + 16 * y, 36864 + 256 * x + 16 * y,
          57502 + 256 * x, 57505 + 256 * x}

\* 6Xaa 6Ybb op
SkipRoms ==
  UNION {{Program(<<24576 + 256 * r[1] + a, 24576 + 256 * r[2] + b, op>>) :
            a \in SkipValues, b \in SkipValues, op \in SkipOps(r[1], r[2])} :
         r \in SkipRegs}

NextSkip ==
  \/ LoadRom(SkipRoms)
  \/ Cycle(MaxCyclesSkip)
  \/ Refresh
  \/ HandleKey(Keys)

SpecSkip == Init /\ [][NextSkip]_vars

(***************************************************************************)
(* SpecScroll: an optional switch to high resolution, the glyph "0" drawn  *)
(* at (V0, V0), in a corner or across an edge of the surface, then one     *)
(* scroll.                                                                 *)
(***************************************************************************)
MaxCyclesScroll == 5

ScrollPositions == {0, 62, 125}

\* 00C0 00C1 00CF (down), 00D1 00DF (up), 00FB (right), 00FC (left)
ScrollOps == {192, 193, 207, 209, 223, 251, 252}

\* 0000|00FF 60xx A000 D005 op
ScrollRoms ==
  {Program(<<m, 24576 + x, 40960, 53253, op>>) :
     m \in {0, 255}, x \in ScrollPositions, op \in ScrollOps}

NextScroll ==
  \/ LoadRom(ScrollRoms)
  \/ Cycle(MaxCyclesScroll)
  \/ Refresh
  \/ HandleKey({0})

SpecScroll == Init /\ [][NextScroll]_vars

(***************************************************************************)
(* SpecBcd: every byte value in V0 or VF, decomposed by FX33 into free     *)
(* memory or at the very end of a 4 KiB memory.                            *)
(***************************************************************************)
MaxCyclesBcd == 3

BcdXs == {0, 15}

BcdValues == 0 .. 255

\* 0xFFD is the last address whose three cells lie inside 4096 bytes
BcdAddresses == {768, 4093, 4094}

\* 6Xvv ANNN FX33
BcdRoms ==
  {Program(<<24576 + 256 * x + v, 40960 + a, 61491 + 256 * x>>) :
     x \in BcdXs, v \in BcdValues, a \in BcdAddresses}

NextBcd ==
  \/ LoadRom(BcdRoms)
  \/ Cycle(MaxCyclesBcd)
  \/ Refresh
  \/ HandleKey({0})

SpecBcd == Init /\ [][NextBcd]_vars

(***************************************************************************)
(* SpecEvents: a program that waits for a key, with every kind of host     *)
(* event delivered between the batches: presses and releases of three of   *)
(* the keys, key repeats, Escape, a key that is not mapped, window events, *)
(* Quit.                                                                   *)
(***************************************************************************)
MaxCyclesEvents == 3

EventScancodes == {"X", "_1", "V"}

Events ==
  {HostEvent(kind, code, repeat) :
     kind \in {"KeyDown", "KeyUp"}, code \in EventScancodes \cup {"Escape", "Space"},
     repeat \in BOOLEAN}
    \cup {QuitEvent, OtherEvent}

\* F00A 1200
EventRoms == {Program(<<61450, 4608>>)}

NextEvents ==
  \/ LoadRom(EventRoms)
  \/ Cycle(MaxCyclesEvents)
  \/ Refresh
  \/ HandleEvent(Events)

SpecEvents == Init /\ [][NextEvents]_vars

(***************************************************************************)
(* SpecQuit: programs that reach 00FD, at once or after a switch to high   *)
(* resolution, run for more than one batch.                                *)
(***************************************************************************)
MaxCyclesQuit == 22

\* 00FD | 00FF 00FD | 00E0 00FD
QuitRoms == {Program(<<253>>), Program(<<255, 253>>), Program(<<224, 253>>)}

NextQuit ==
  \/ LoadRom(QuitRoms)
  \/ Cycle(MaxCyclesQuit)
  \/ Refresh
  \/ HandleEvent({QuitEvent, HostEvent("KeyDown", "X", FALSE), HostEvent("KeyUp", "X", FALSE)})

SpecQuit == Init /\ [][NextQuit]_vars

(***************************************************************************)
(* SpecWait: a wait for a key that starts on the second cycle, so that     *)
(* keys can be held before it is armed, with the presses and releases of   *)
(* three keys interleaved between the batches.                             *)
(***************************************************************************)
MaxCyclesWait == 4

WaitKeys == {0, 1, 2}

\* 00E0 FX0A 1200
KeyWaitRoms == {Program(<<224, 61450 + 256 * x, 4608>>) : x \in {0, 15}}

NextWait ==
  \/ LoadRom(KeyWaitRoms)
  \/ Cycle(MaxCyclesWait)
  \/ Refresh
  \/ HandleKey(WaitKeys)

SpecWait == Init /\ [][NextWait]_vars

(***************************************************************************)
(* Properties.                                                             *)
(***************************************************************************)
\* the step is one call of emulate_cycle
CycleStep == cycles' = cycles + 1

\* the step is no call of emulate_cycle (a timer tick or a key event)
HostStep == cycles' = cycles /\ loaded

\* the instruction the next cycle executes
Fetched(c) == IF FetchFaults(c, FALSE) THEN "none" ELSE Decode(c.target, Opcode(c))

Idle == << {}, {} >>
Armed == << {FALSE}, {} >>
Pressed(k) == << {FALSE}, {k} >>
Captured(k) == << {TRUE}, {k} >>

\* C1: a cycle that executes FX0A while no key has been recorded by the wait
\* leaves pc and every register unchanged, leaves the wait armed and finds the
\* same FX0A at pc again; a timer tick changes none of pc, registers, wait state.
C1_WaitHoldsPc ==
  [][ /\ (CycleStep /\ Fetched(chip8) = "c8_key_wait" /\ chip8.key_wait[2] = {})
          => /\ chip8'.pc = chip8.pc
             /\ chip8'.registers = chip8.registers
             /\ chip8'.key_wait = Armed
             /\ Opcode(chip8') = Opcode(chip8)
             /\ Running(chip8')
      /\ (HostStep /\ chip8'.key = chip8.key /\ chip8.key_wait = Armed
            /\ chip8'.key_wait = Armed)
          => /\ chip8'.pc = chip8.pc
             /\ chip8'.registers = chip8.registers
             /\ chip8'.memory = chip8.memory ]_vars

\* C1 witness: the wait is still armed at 0x206 after three re-issues, both timers
\* (set to 2 by the program) have been ticked down to 0
C1_Witness ==
  /\ chip8.key_wait = Armed
  /\ chip8.pc = 518
  /\ cycles >= 7
  /\ chip8.registers[0] = 2
  /\ chip8.delay_timer = 0
  /\ chip8.sound_timer = 0

\* C2 as stated: once a press of key k has been recorded by the armed wait, the
\* next cycle writes k to VX, returns the wait to idle and advances pc by 2.
C2_PressCompletesWait ==
  [][ \A k \in 0 .. (NUMBER_OF_KEYS - 1) :
        (CycleStep /\ Fetched(chip8) = "c8_key_wait" /\ chip8.key_wait = Pressed(k))
          => /\ chip8'.registers[register_x(Opcode(chip8))] = k
             /\ chip8'.key_wait = Idle
             /\ chip8'.pc = chip8.pc + 2 ]_vars

\* C2 amended: a press of key k while armed only records k (cycles keep pc, the
\* registers and the recorded key); the wait is captured by the release of that
\* same key k, and the first cycle after it writes k to VX, returns the wait to
\* idle and advances pc by 2.
C2_ReleaseCompletesWait ==
  [][ \A k \in 0 .. (NUMBER_OF_KEYS - 1) :
        /\ (HostStep /\ chip8.key_wait = Armed /\ chip8'.key_wait # Armed)
             => \E j \in chip8'.key : chip8'.key_wait = Pressed(j)
        /\ (CycleStep /\ Fetched(chip8) = "c8_key_wait" /\ chip8.key_wait = Pressed(k))
             => /\ chip8'.pc = chip8.pc
                /\ chip8'.registers = chip8.registers
                /\ chip8'.key_wait = Pressed(k)
        /\ (HostStep /\ chip8.key_wait = Pressed(k) /\ chip8'.key_wait # Pressed(k))
             => /\ chip8'.key_wait = Captured(k)
                /\ k \in chip8.key
                /\ k \notin chip8'.key
        /\ (HostStep /\ chip8.key_wait = Pressed(k) /\ k \in chip8.key /\ k \notin chip8'.key)
             => chip8'.key_wait = Captured(k)
        /\ (HostStep /\ chip8.key_wait = Captured(k)) => chip8'.key_wait = Captured(k)
        /\ (CycleStep /\ Fetched(chip8) = "c8_key_wait" /\ chip8.key_wait = Captured(k))
             => /\ chip8'.registers =
                     [chip8.registers EXCEPT ![register_x(Opcode(chip8))] = k]
                /\ chip8'.key_wait = Idle
                /\ chip8'.pc = chip8.pc + 2 ]_vars

\* C2 witness: the wait into V3 at 0x206 has completed with key 1
C2_Witness ==
  /\ chip8.key_wait = Idle
  /\ chip8.pc = 520
  /\ chip8.registers[3] = 1
  /\ chip8.registers[0] = 2

\* the instruction set of a target: the opcode patterns the CHIP-8 family defines
\* (the SuperChip and XO-Chip additions only on those targets)
InstructionSet(target, o) ==
  LET hi == HighNibble(o)
      lo == LowNibble(o)
      nn == opcode_value(o)
      ext == target \in {"SuperChipLegacy", "SuperChip", "XoChip"}
  IN \/ o \in {224, 238}
     \/ ext /\ o \in {251, 252, 253, 254, 255}
     \/ ext /\ o \in 192 .. 207
     \/ target = "XoChip" /\ o \in 208 .. 223
     \/ hi \in {1, 2, 3, 4, 6, 7, 10, 11, 12, 13}
     \/ hi \in {5, 9} /\ lo = 0
     \/ hi = 8 /\ lo \in {0, 1, 2, 3, 4, 5, 6, 7, 14}
     \/ hi = 14 /\ nn \in {158, 161}
     \/ hi = 15 /\ nn \in {7, 10, 21, 24, 30, 41, 51, 85, 101}
     \/ hi = 15 /\ ext /\ nn \in {48, 117, 133}

\* C3: a cycle whose opcode is in the target's instruction set never ends in the
\* unknown-opcode fault; one whose opcode is not in it ends in that fault unless
\* the opcode has the 0NNN form, and then the cycle only adds 2 to pc.
C3_UnknownOpcodeFaults ==
  [][ (CycleStep /\ ~FetchFaults(chip8, TRUE))
        => LET o == Opcode(chip8)
           IN /\ InstructionSet(chip8.target, o) => chip8'.panic # "unknown opcode"
              /\ (~InstructionSet(chip8.target, o) /\ HighNibble(o) # 0)
                   => chip8' = Panic(chip8, "unknown opcode")
              /\ (~InstructionSet(chip8.target, o) /\ HighNibble(o) = 0)
                   => chip8' = [chip8 EXCEPT !.pc = chip8.pc + 2] ]_vars

\* C3 witness: FF75 (a SuperChip instruction) has been fetched on the CHIP-8 target
\* and the run has ended in the unknown-opcode fault
C3_Witness ==
  /\ chip8.target = "Chip8"
  /\ chip8.panic = "unknown opcode"
  /\ Opcode(chip8) = 65397
  /\ cycles = 1

\* C5 as stated: 0 <= sp <= 16 in every state; a 00EE faults exactly when sp = 0;
\* a 2NNN faults exactly when sp = 16 before the call, so a call made with fewer
\* than 16 slots in use succeeds.
C5_StackFaultsOnlyWhenFull ==
  [][ /\ chip8'.sp \in 0 .. STACK_SIZE
      /\ (CycleStep /\ Fetched(chip8) = "c8_flow_return")
           => (Running(chip8') <=> chip8.sp # 0)
      /\ (CycleStep /\ Fetched(chip8) = "c8_flow_gosub")
           => (Running(chip8') <=> chip8.sp # STACK_SIZE) ]_vars

\* C6 as stated: a 2NNN at pc = p with a free stack slot stores p in stack[sp],
\* increments sp and sets pc = NNN; a 00EE with a non-empty stack decrements sp
\* and sets pc = stack[sp] + 2.
C6_CallReturnPairing ==
  [][ /\ (CycleStep /\ Fetched(chip8) = "c8_flow_gosub" /\ chip8.sp < STACK_SIZE)
           => /\ chip8'.stack = [chip8.stack EXCEPT ![chip8.sp] = chip8.pc]
              /\ chip8'.sp = chip8.sp + 1
              /\ chip8'.pc = Address(Opcode(chip8))
      /\ (CycleStep /\ Fetched(chip8) = "c8_flow_return" /\ chip8.sp > 0)
           => /\ chip8'.sp = chip8.sp - 1
              /\ chip8'.pc = chip8.stack[chip8.sp - 1] + 2
              /\ chip8'.stack = chip8.stack ]_vars

\* C7 as stated: at every instruction boundary of a loaded, running machine pc is
\* even and 0x200 <= pc < memory_capacity.
C7_PcEvenInProgramArea ==
  (loaded /\ Running(chip8))
    => /\ chip8.pc % 2 = 0
       /\ chip8.pc >= ROM_START
       /\ chip8.pc < Profile(chip8.target).memory_capacity

\* pc and every stacked return address are even and at least 0x200
EvenAndHigh(a) == a % 2 = 0 /\ a >= ROM_START

PcWellFormed(c) ==
  /\ EvenAndHigh(c.pc)
  /\ \A s \in 0 .. (c.sp - 1) : EvenAndHigh(c.stack[s])

\* the next cycle is a 1NNN, 2NNN or BNNN whose target is odd or below 0x200
JumpsOffGrid(c) ==
  \/ Fetched(c) \in {"c8_flow_goto", "c8_flow_gosub"} /\ ~EvenAndHigh(Address(Opcode(c)))
  \/ /\ Fetched(c) = "c8_flow_jump"
     /\ ~EvenAndHigh(Address(Opcode(c))
                       + (IF c.target \in {"Chip8", "XoChip"} THEN c.registers[0]
                          ELSE c.registers[register_x(Opcode(c))]))

\* C7 amended: pc is 0x200 after construction and a ROM load; a cycle keeps pc (and
\* the stacked return addresses) even and at least 0x200 unless it executes a
\* 1NNN/2NNN/BNNN whose target is odd or below 0x200 or pc wraps at 2^16; a timer
\* tick or key event never changes pc.  No upper bound below the u16 range holds.
C7_PcEvenUnlessJumpedOffGrid ==
  [][ /\ ~loaded => (chip8.pc = ROM_START /\ chip8'.pc = ROM_START /\ chip8.sp = 0)
      /\ (CycleStep /\ PcWellFormed(chip8) /\ ~JumpsOffGrid(chip8)
            /\ chip8.pc + 4 < U16_LIMIT)
           => PcWellFormed(chip8')
      /\ HostStep => (chip8'.pc = chip8.pc /\ chip8'.stack = chip8.stack
                        /\ chip8'.sp = chip8.sp) ]_vars

\* C7 witness: the nested-calls program has made two calls and two returns and
\* loops at 0x202 with the stack empty again
C7_Witness ==
  /\ chip8.pc = 514
  /\ chip8.sp = 0
  /\ chip8.stack[0] = 512
  /\ chip8.stack[1] = 516
  /\ cycles >= 5
  /\ PcWellFormed(chip8)

\* C4 as stated: a cycle aborts the run only for an unrecognized opcode or a stack
\* overflow/underflow; no recognized instruction and no opcode fetch faults.
C4_OnlyOpcodeAndStackFaults ==
  chip8.panic \in {"none", "unknown opcode", "stack pointer too low",
                   "stack pointer too high"}

\* C8 as stated: in every reachable state of a running machine the address
\* register is below the memory capacity of the target's profile.
C8_AddressRegisterInMemory ==
  Running(chip8) => chip8.i < Profile(chip8.target).memory_capacity

\* C9 as stated: in every reachable state memory[0..80) equals the font table
\* loaded at construction.
C9_FontNeverMutated ==
  \A a \in 0 .. (Len(CHIP8_FONTSET) - 1) : MemRead(chip8, a) = CHIP8_FONTSET[a + 1]

\* the sum and the carry of the 8XY4 that the next cycle executes
AddSum(c) == c.registers[register_x(Opcode(c))] + c.registers[register_y(Opcode(c))]

AddCarry(c) == IF AddSum(c) > 255 THEN 1 ELSE 0

\* C10 as stated: for all X and Y in 0..15 (X = 15 and X = Y included), 8XY4 with
\* VX = a and VY = b yields VX = (a + b) mod 256 and register 15 = carry; pc
\* advances by 2.
C10_AddYieldsSumAndCarry ==
  [][ (CycleStep /\ Fetched(chip8) = "c8_math_add_reg")
        => /\ chip8'.registers[register_x(Opcode(chip8))] = AddSum(chip8) % 256
           /\ chip8'.registers[15] = AddCarry(chip8)
           /\ chip8'.pc = chip8.pc + 2 ]_vars

\* C10 amended: 8XY4 always leaves the carry in register 15 and advances pc by 2;
\* for X # 15 it leaves VX = (a + b) mod 256 (X = Y included); for X = 15 the
\* carry overwrites the sum.  No other register changes.
C10_AddYieldsSumUnlessFlagTarget ==
  [][ (CycleStep /\ Fetched(chip8) = "c8_math_add_reg")
        => /\ chip8'.registers =
                [r \in 0 .. (NUMBER_OF_REGISTERS - 1) |->
                   IF r = 15 THEN AddCarry(chip8)
                   ELSE IF r = register_x(Opcode(chip8)) THEN AddSum(chip8) % 256
                   ELSE chip8.registers[r]]
           /\ chip8'.pc = chip8.pc + 2 ]_vars

\* C10 witness: 8FF4 has run with VF = 255 on both sides: the sum would be 254,
\* register 15 holds the carry 1
C10_Witness ==
  /\ cycles = 3
  /\ Running(chip8)
  /\ MemRead(chip8, 516) = 143
  /\ MemRead(chip8, 517) = 244
  /\ MemRead(chip8, 513) = 255
  /\ chip8.registers[15] = 1
  /\ chip8.pc = 518

\* VX and VY of the instruction that the next cycle executes
OperandX(c) == c.registers[register_x(Opcode(c))]

OperandY(c) == c.registers[register_y(Opcode(c))]

\* C11 as stated: 8XY5 with VX = a, VY = b yields VX = (a - b) mod 256 and register
\* 15 = 1 iff a >= b; 8XY7 yields VX = (b - a) mod 256 and register 15 = 1 iff
\* b >= a (for every X, X = 15 included).
C11_SubYieldsDifferenceAndFlag ==
  [][ /\ (CycleStep /\ Fetched(chip8) = "c8_math_sub_reg")
           => /\ chip8'.registers[register_x(Opcode(chip8))]
                   = (OperandX(chip8) - OperandY(chip8)) % 256
              /\ chip8'.registers[15] = (IF OperandX(chip8) >= OperandY(chip8) THEN 1 ELSE 0)
      /\ (CycleStep /\ Fetched(chip8) = "c8_math_neg_reg")
           => /\ chip8'.registers[register_x(Opcode(chip8))]
                   = (OperandY(chip8) - OperandX(chip8)) % 256
              /\ chip8'.registers[15] = (IF OperandY(chip8) >= OperandX(chip8) THEN 1 ELSE 0)
    ]_vars

\* C11 amended: 8XY5 (8XY7) always leaves register 15 = 1 iff a >= b (b >= a) and
\* advances pc by 2; for X # 15 it leaves VX = (a - b) mod 256 ((b - a) mod 256);
\* for X = 15 the flag overwrites the difference.  No other register changes.
C11_SubYieldsDifferenceUnlessFlagTarget ==
  [][ /\ (CycleStep /\ Fetched(chip8) = "c8_math_sub_reg")
           => /\ chip8'.registers =
                   [r \in 0 .. (NUMBER_OF_REGISTERS - 1) |->
                      IF r = 15 THEN (IF OperandX(chip8) >= OperandY(chip8) THEN 1 ELSE 0)
                      ELSE IF r = register_x(Opcode(chip8))
                      THEN (OperandX(chip8) - OperandY(chip8)) % 256
                      ELSE chip8.registers[r]]
              /\ chip8'.pc = chip8.pc + 2
      /\ (CycleStep /\ Fetched(chip8) = "c8_math_neg_reg")
           => /\ chip8'.registers =
                   [r \in 0 .. (NUMBER_OF_REGISTERS - 1) |->
                      IF r = 15 THEN (IF OperandY(chip8) >= OperandX(chip8) THEN 1 ELSE 0)
                      ELSE IF r = register_x(Opcode(chip8))
                      THEN (OperandY(chip8) - OperandX(chip8)) % 256
                      ELSE chip8.registers[r]]
              /\ chip8'.pc = chip8.pc + 2
    ]_vars

\* C11 witness: 6101 6280 8125 has run: V1 = 1 - 128 mod 256 = 129 with a borrow,
\* so register 15 = 0
C11_Witness ==
  /\ cycles = 3
  /\ Running(chip8)
  /\ MemRead(chip8, 516) = 129
  /\ MemRead(chip8, 517) = 37
  /\ chip8.registers[1] = 129
  /\ chip8.registers[2] = 128
  /\ chip8.registers[15] = 0
  /\ chip8.pc = 518

\* register files that may replace the registers between the FX55 and the FX65
Clobbers(c) ==
  {c.registers,
   [r \in 0 .. (NUMBER_OF_REGISTERS - 1) |-> 0],
   [r \in 0 .. (NUMBER_OF_REGISTERS - 1) |-> 255 - c.registers[r]]}

\* FX55 in state c, then the registers replaced by clob and I set back, then FX65
\* with the same X: V0..VX are those of c, the others those of clob
RoundTrip(c, clob, oc) ==
  LET o == Opcode(c)
      dumped == c8_mem_reg_dump(c, o, oc).c
      loaded_back == c8_mem_reg_load([dumped EXCEPT !.i = c.i, !.registers = clob], o, oc).c
  IN Running(dumped)
       => /\ Running(loaded_back)
          /\ loaded_back.registers =
               [r \in 0 .. (NUMBER_OF_REGISTERS - 1) |->
                  IF r <= register_x(o) THEN c.registers[r] ELSE clob[r]]

\* C12: for every target and X, an FX55 that does not fault, followed by an FX65
\* with the same X and the same I, restores V0..VX to their contents before the
\* FX55 and leaves V(X+1)..VF as they were before the FX65: both for the two
\* handlers composed from any state about to execute FX55, and in the run of
\* 60aa 61bb 6Fee ANNN FX55 6077 6F77 ANNN FX65, whose last cycle restores
\* V0 = aa, V1 = bb (X >= 1) and VF = ee (X = 15).
C12_DumpLoadRoundTrip ==
  [][ /\ (CycleStep /\ Fetched(chip8) = "c8_mem_reg_dump")
           => \A clob \in Clobbers(chip8), oc \in BOOLEAN : RoundTrip(chip8, clob, oc)
      /\ (CycleStep /\ Fetched(chip8) = "c8_mem_reg_load" /\ cycles = 8 /\ Running(chip8'))
           => LET x == register_x(Opcode(chip8))
              IN /\ chip8'.registers[0] = MemRead(chip8, 513)
                 /\ chip8'.registers[1] = (IF x >= 1 THEN MemRead(chip8, 515) ELSE chip8.registers[1])
                 /\ chip8'.registers[15] = (IF x = 15 THEN MemRead(chip8, 517) ELSE chip8.registers[15])
    ]_vars

\* C12 witness: 60FF 6102 6F03 A300 FF55 6077 6F77 A300 FF65 has run: V0 and VF,
\* overwritten with 0x77 after the FX55, hold 0xFF and 3 again
C12_Witness ==
  /\ cycles = 9
  /\ Running(chip8)
  /\ MemRead(chip8, 520) = 255 /\ MemRead(chip8, 521) = 85
  /\ MemRead(chip8, 528) = 255 /\ MemRead(chip8, 529) = 101
  /\ chip8.registers[0] = 255
  /\ chip8.registers[1] = 2
  /\ chip8.registers[15] = 3
  /\ MemRead(chip8, 768) = 255

\* memory cells a step can have changed
TouchedCells == (DOMAIN chip8.memory) \cup (DOMAIN chip8'.memory)

\* I after FX55/FX65 that started with I = c.i
AddressAfterCopy(c) ==
  IF c.target \in {"Chip8", "XoChip"} THEN c.i + register_x(Opcode(c)) + 1 ELSE c.i

DrawsEightWide(c) ==
  /\ Fetched(c) = "c8_draw_sprite"
  /\ ~(c.target # "Chip8" /\ c.hires /\ LowNibble(Opcode(c)) = 0)

\* the effective drawing surface
SurfaceWidth(c) ==
  IF c.target # "Chip8" /\ ~c.hires THEN Profile(c.target).screen_width \div 2
  ELSE Profile(c.target).screen_width

SurfaceHeight(c) ==
  IF c.target # "Chip8" /\ ~c.hires THEN Profile(c.target).screen_height \div 2
  ELSE Profile(c.target).screen_height

RECURSIVE Pow2(_)
Pow2(n) == IF n = 0 THEN 1 ELSE 2 * Pow2(n - 1)

\* the framebuffer cells under a set bit of the rows memory[I..I+N) placed at
\* (VX mod width, VY mod height): clipped at the edges, wrapped on XO-Chip
CellsUnderSprite(c) ==
  LET o == Opcode(c)
      w == SurfaceWidth(c)
      h == SurfaceHeight(c)
      x0 == c.registers[register_x(o)] % w
      y0 == c.registers[register_y(o)] % h
      lit == {p \in (0 .. (LowNibble(o) - 1)) \X (0 .. 7) :
                (MemRead(c, c.i + p[1]) \div Pow2(7 - p[2])) % 2 = 1}
      seen == IF c.target = "XoChip" THEN lit
              ELSE {p \in lit : x0 + p[2] < w /\ y0 + p[1] < h}
  IN {((y0 + p[1]) % h) * Profile(c.target).screen_width + ((x0 + p[2]) % w) : p \in seen}

\* DXYN from state c with a cleared framebuffer, then the same DXYN again
FirstDraw(c) == c8_draw_sprite(c, Opcode(c)).c

SecondDraw(c) == c8_draw_sprite(FirstDraw(c), Opcode(c)).c

\* the first draw does not fault and leaves the position registers as they were
DrawnTwiceInPlace(c) ==
  /\ DrawsEightWide(c)
  /\ c.gfx = {}
  /\ Running(FirstDraw(c))
  /\ FirstDraw(c).registers[register_x(Opcode(c))] = c.registers[register_x(Opcode(c))]
  /\ FirstDraw(c).registers[register_y(Opcode(c))] = c.registers[register_y(Opcode(c))]

\* C14 as stated: from a cleared framebuffer, for every target, position, N and
\* sprite data, drawing the same 8xN sprite twice at the same position leaves the
\* framebuffer all-unset, with register 15 = 0 after the first draw and register
\* 15 = 1 after the second.
C14_SecondDrawAlwaysCollides ==
  [][ (CycleStep /\ DrawnTwiceInPlace(chip8))
        => /\ SecondDraw(chip8).gfx = {}
           /\ FirstDraw(chip8).registers[15] = 0
           /\ SecondDraw(chip8).registers[15] = 1 ]_vars

\* C14 amended: from a cleared framebuffer, drawing the same 8xN sprite twice at
\* the same position leaves the framebuffer all-unset with register 15 = 0 after
\* the first draw; after the second draw register 15 = 1 if the first draw set at
\* least one pixel and 0 if it set none (N = 0, all-zero rows, or every set bit
\* clipped).  In the run, a draw whose sprite cells are exactly the lit cells
\* clears the framebuffer with the same flag.
C14_SecondDrawCollidesIfAnyPixel ==
  [][ /\ (CycleStep /\ DrawnTwiceInPlace(chip8))
           => /\ SecondDraw(chip8).gfx = {}
              /\ FirstDraw(chip8).registers[15] = 0
              /\ SecondDraw(chip8).registers[15]
                   = (IF FirstDraw(chip8).gfx # {} THEN 1 ELSE 0)
      /\ (CycleStep /\ DrawsEightWide(chip8) /\ Running(chip8')
            /\ CellsUnderSprite(chip8) = chip8.gfx)
           => /\ chip8'.gfx = {}
              /\ chip8'.registers[15] = (IF chip8.gfx # {} THEN 1 ELSE 0)
    ]_vars

\* C14 witness: the glyph "0" was drawn twice (D015 D015) at (125 mod width, 62 mod
\* height): the framebuffer is empty again and register 15 = 1
C14_Witness ==
  /\ cycles = 6
  /\ Running(chip8)
  /\ MemRead(chip8, 515) = 125 /\ MemRead(chip8, 517) = 62
  /\ MemRead(chip8, 518) = 160 /\ MemRead(chip8, 519) = 0
  /\ MemRead(chip8, 520) = 208 /\ MemRead(chip8, 521) = 21
  /\ chip8.gfx = {}
  /\ chip8.registers[15] = 1

\* C15: a DXYN (8-pixel-wide form) that does not fault toggles exactly the cells
\* under a set bit of the sprite rows memory[I..I+N) placed at (VX mod width, VY mod
\* height), leaves every other cell unchanged, sets register 15 to 1 if one of the
\* toggled cells was set before and to 0 otherwise, sets the draw flag and
\* advances pc by 2; nothing else changes.
C15_DrawTogglesSpriteCells ==
  [][ (CycleStep /\ DrawsEightWide(chip8) /\ Running(chip8'))
        => LET cells == CellsUnderSprite(chip8)
           IN chip8' = [chip8 EXCEPT
                          !.gfx = (chip8.gfx \ cells) \cup (cells \ chip8.gfx),
                          !.registers[15] = IF cells \cap chip8.gfx # {} THEN 1 ELSE 0,
                          !.draw = TRUE,
                          !.pc = chip8.pc + 2] ]_vars

\* C15 witness: on CHIP-8 the glyph "0" (F0 90 90 90 F0) was drawn once at (0, 0)
\* after the display had been refreshed: 14 cells are lit, register 15 = 0 and the
\* draw flag is set again
C15_Witness ==
  /\ cycles = 5
  /\ chip8.target = "Chip8"
  /\ MemRead(chip8, 520) = 208 /\ MemRead(chip8, 521) = 21
  /\ chip8.gfx = {0, 1, 2, 3, 64, 67, 128, 131, 192, 195, 256, 257, 258, 259}
  /\ chip8.registers[15] = 0
  /\ chip8.draw
  /\ chip8.pc = 522

\* C16: 00E0 unsets every framebuffer cell, sets the draw flag whatever it was
\* and changes nothing else but pc (+2); a second 00E0, also after the host has
\* cleared the draw flag in between, leaves the same framebuffer and sets the
\* draw flag again.
C16_ClearIdempotent ==
  [][ (CycleStep /\ Fetched(chip8) = "c8_display_clear")
        => /\ chip8' = [chip8 EXCEPT !.gfx = {}, !.draw = TRUE, !.pc = chip8.pc + 2]
           /\ \A host \in {chip8', refresh(chip8')} :
                /\ c8_display_clear(host).c.gfx = chip8'.gfx
                /\ c8_display_clear(host).c.draw ]_vars

\* C16 witness: after two sprites were drawn, 00E0 has run, the host has cleared
\* the draw flag, and the second 00E0 has set it again on an empty framebuffer
C16_Witness ==
  /\ cycles = 8
  /\ Running(chip8)
  /\ MemRead(chip8, 525) = 224
  /\ MemRead(chip8, 527) = 224
  /\ chip8.pc = 528
  /\ chip8.gfx = {}
  /\ chip8.draw

\* the next cycle executes FXnn on a SuperChip or XO-Chip target
FetchesFlagOp(c, nn) ==
  /\ c.target # "Chip8"
  /\ ~FetchFaults(c, FALSE)
  /\ HighNibble(Opcode(c)) = 15
  /\ opcode_value(Opcode(c)) = nn

FlagX(c) == register_x(Opcode(c))

\* C17 as stated: on SuperChip/XO-Chip with X < user_register_count, FX75 copies
\* V0..VX into user_registers[0..X] and leaves the V registers unchanged; FX85
\* copies user_registers[0..X] into V0..VX and leaves the user bank unchanged.
C17_FlagSaveRestore ==
  [][ /\ (CycleStep /\ FetchesFlagOp(chip8, 117)
            /\ FlagX(chip8) < Profile(chip8.target).user_register_count)
           => /\ chip8'.user_registers =
                   [r \in DOMAIN chip8.user_registers |->
                      IF r <= FlagX(chip8) THEN chip8.registers[r]
                      ELSE chip8.user_registers[r]]
              /\ chip8'.registers = chip8.registers
      /\ (CycleStep /\ FetchesFlagOp(chip8, 133)
            /\ FlagX(chip8) < Profile(chip8.target).user_register_count)
           => /\ chip8'.registers =
                   [r \in 0 .. (NUMBER_OF_REGISTERS - 1) |->
                      IF r <= FlagX(chip8) THEN chip8.user_registers[r]
                      ELSE chip8.registers[r]]
              /\ chip8'.user_registers = chip8.user_registers
    ]_vars

\* C18: on SuperChip/XO-Chip, FX75 or FX85 with X >= user_register_count does not
\* fault and changes nothing but pc, which advances by 2.
C18_FlagOutOfRangeIgnored ==
  [][ (CycleStep /\ (FetchesFlagOp(chip8, 117) \/ FetchesFlagOp(chip8, 133))
         /\ FlagX(chip8) >= Profile(chip8.target).user_register_count)
        => chip8' = [chip8 EXCEPT !.pc = chip8.pc + 2] ]_vars

\* C18 witness: on SuperChip (8 user registers) 60FF 6102 F875 has run: V0 and V1
\* still hold 0xFF and 2 and pc is past the F875
C18_Witness ==
  /\ cycles = 3
  /\ Running(chip8)
  /\ chip8.target = "SuperChip"
  /\ MemRead(chip8, 516) = 248 /\ MemRead(chip8, 517) = 117
  /\ chip8.registers[0] = 255
  /\ chip8.registers[1] = 2
  /\ \A r \in DOMAIN chip8.user_registers : chip8.user_registers[r] = 0
  /\ chip8.pc = 518

\* C19 as stated: FX29 with VX outside 0x0..0xF does not fault and leaves
\* address_register, registers, memory and framebuffer unchanged; only pc
\* advances by 2.
C19_GlyphOutOfRangeIgnored ==
  [][ (CycleStep /\ Fetched(chip8) = "c8_mem_spriteaddr"
         /\ chip8.registers[register_x(Opcode(chip8))] > 15)
        => chip8' = [chip8 EXCEPT !.pc = chip8.pc + 2] ]_vars

\* C19 amended: FX29 never faults; for every VX, in or out of 0x0..0xF, it sets
\* address_register to 5 * (VX mod 16), the glyph of the low nibble of VX, and
\* changes nothing else but pc, which advances by 2.
C19_GlyphOfLowNibble ==
  [][ (CycleStep /\ Fetched(chip8) = "c8_mem_spriteaddr")
        => chip8' = [chip8 EXCEPT
                       !.i = 5 * (chip8.registers[register_x(Opcode(chip8))] % 16),
                       !.pc = chip8.pc + 2] ]_vars

\* C19 witness: 601A A300 F029 has run: VX = 0x1A is out of range and I has moved
\* from 0x300 to 50, the glyph "A"
C19_Witness ==
  /\ cycles = 3
  /\ Running(chip8)
  /\ MemRead(chip8, 514) = 163 /\ MemRead(chip8, 515) = 0
  /\ MemRead(chip8, 516) = 240 /\ MemRead(chip8, 517) = 41
  /\ chip8.registers[0] = 26
  /\ chip8.i = 50
  /\ chip8.pc = 518

\* the target is SuperChip (either variant) or XO-Chip
IsScOrXo(c) == c.target \in {"SuperChipLegacy", "SuperChip", "XoChip"}

\* C20 as stated: the resolution-scale accessor returns 1 in every state except
\* when the target is SuperChip or XO-Chip and high-resolution mode is active.
C20_ScaleOneUnlessHires ==
  ~(IsScOrXo(chip8) /\ chip8.hires) => resolution_scale(chip8) = 1

\* C20 amended: the resolution-scale accessor returns 2 exactly when the target is
\* SuperChip or XO-Chip and high-resolution mode is off, and 1 in every other
\* state (CHIP-8, or high-resolution mode active).
C20_ScaleTwoInLowResolution ==
  resolution_scale(chip8) = (IF IsScOrXo(chip8) /\ ~chip8.hires THEN 2 ELSE 1)

\* C20 witness: a SuperChip machine has executed 00FF and a draw: high resolution
\* is active and the scale is 1
C20_Witness ==
  /\ cycles >= 5
  /\ chip8.target = "SuperChip"
  /\ chip8.hires
  /\ chip8.gfx # {}
  /\ resolution_scale(chip8) = 1

\* the step is the part of Emulator::refresh before the events: it ends a batch
RefreshStep == batch >= 1 /\ batch' = 0

\* the handler the instruction before pc was dispatched to
Executed(c) ==
  Decode(c.target, MemRead(c, c.pc - 2) * 256 + MemRead(c, c.pc - 1))

\* C21: a cycle that changes a framebuffer cell sets the needs-refresh flag;
\* a refresh step paints the framebuffer when the flag is set and leaves the
\* window alone when it is not, and after it the window shows the current
\* framebuffer and the flag is false.
C21_HandOffNeverStale ==
  [][/\ (CycleStep /\ chip8'.gfx # chip8.gfx => graphics_needs_refresh(chip8'))
     /\ (RefreshStep =>
           /\ (graphics_needs_refresh(chip8) => canvas' = chip8.gfx)
           /\ (~graphics_needs_refresh(chip8) => canvas' = canvas)
           /\ canvas' = chip8'.gfx
           /\ ~graphics_needs_refresh(chip8'))]_vars

\* a refresh has handed over a framebuffer that a scroll had just moved
C21_Witness ==
  /\ loaded /\ Running(chip8)
  /\ cycles >= 4
  /\ batch = 0
  /\ Executed(chip8) \in {"sc_scroll_down", "sc_scroll_right", "sc_scroll_left",
                          "xo_scroll_up"}
  /\ canvas = chip8.gfx
  /\ canvas # {}
  /\ ~graphics_needs_refresh(chip8)

\* a timer after one tick, as the claim words it
Lowered(t) == IF t > 0 THEN t - 1 ELSE 0

\* C22: the timer tick of a refresh step lowers each timer by exactly 1 when it
\* is above 0 and leaves it at 0 otherwise; a cycle changes delay_timer only
\* by FX15 (to VX) and sound_timer only by FX18 (to VX); a key event changes
\* neither.
C22_TimersTickAndSaturate ==
  [][/\ (RefreshStep =>
           /\ chip8'.delay_timer = Lowered(chip8.delay_timer)
           /\ chip8'.sound_timer = Lowered(chip8.sound_timer))
     /\ (CycleStep =>
           /\ (chip8'.delay_timer # chip8.delay_timer =>
                 Fetched(chip8) = "c8_timer_delay_set")
           /\ (chip8'.sound_timer # chip8.sound_timer =>
                 Fetched(chip8) = "c8_timer_sound_set")
           /\ (Fetched(chip8) = "c8_timer_delay_set" =>
                 chip8'.delay_timer = chip8.registers[register_x(Opcode(chip8))])
           /\ (Fetched(chip8) = "c8_timer_sound_set" =>
                 chip8'.sound_timer = chip8.registers[register_x(Opcode(chip8))]))
     /\ (HostStep /\ ~RefreshStep =>
           /\ chip8'.delay_timer = chip8.delay_timer
           /\ chip8'.sound_timer = chip8.sound_timer)]_vars

\* a tick has left the delay timer, set to 0, at 0 and lowered the sound timer,
\* set to 2, to 1
C22_Witness ==
  /\ loaded /\ Running(chip8)
  /\ chip8.pc >= 520
  /\ batch = 0
  /\ chip8.registers[1] = 0 /\ chip8.delay_timer = 0
  /\ chip8.registers[2] = 2 /\ chip8.sound_timer = 1

\* the machine after k calls of update_timers: half of them, then the rest
\* (none of which changes a machine that a tick leaves as it is)
RECURSIVE Ticks(_, _)
Ticks(c, k) ==
  IF k = 0 THEN c
  ELSE IF k = 1 THEN update_timers(c)
  ELSE LET half == Ticks(c, k \div 2)
       IN IF update_timers(half) = half THEN half
          ELSE Ticks(half, k - (k \div 2))

TimerTick == cycles' = cycles /\ chip8'.delay_timer = chip8.delay_timer - 1

\* the step applies a key event
KeyEvent ==
  cycles' = cycles /\ (chip8'.key # chip8.key \/ chip8'.key_wait # chip8.key_wait)

\* C24: a batch has at most 20 cycles; the timer decrement runs only after a
\* batch of at least one cycle and closes it, so it cannot run again before
\* the next batch; a key event is applied only once the decrement has closed
\* the batch, never between two cycles of a batch; a cycle after a key event
\* or a decrement starts a new batch.
C24_FrameOrder ==
  [][/\ batch' \in 0 .. 20
     /\ (CycleStep => batch' = batch + 1)
     /\ (TimerTick => batch \in 1 .. 20 /\ batch' = 0)
     /\ (RefreshStep => chip8'.delay_timer = Lowered(chip8.delay_timer))
     /\ (KeyEvent => batch = 0 /\ batch' = 0 /\ cycles >= 1)]_vars

\* a first batch of 20 cycles, then one decrement of the delay timer (3 to 2),
\* then the press of key 0
C24_Witness ==
  /\ loaded /\ Running(chip8)
  /\ cycles = 20
  /\ batch = 0
  /\ chip8.registers[0] = 3
  /\ chip8.delay_timer = 2
  /\ 0 \in chip8.key

\* the X of the instruction that the next cycle executes
FetchedX(c) == register_x(Opcode(c))

\* the registers other than r and register 15 are left as they were
OthersKept(r) ==
  \A q \in 0 .. 14 : q # r => chip8'.registers[q] = chip8.registers[q]

\* C25: 7XNN with X # 15 sets VX to (VX + NN) mod 256, leaves register 15 and
\* every other register unchanged, overflow or not, and advances pc by 2.
C25_AddImmediateNoCarry ==
  [][CycleStep /\ Fetched(chip8) = "c8_const_add_num" /\ FetchedX(chip8) # 15 =>
       /\ chip8'.registers[FetchedX(chip8)] =
            (OperandX(chip8) + opcode_value(Opcode(chip8))) % 256
       /\ chip8'.registers[15] = chip8.registers[15]
       /\ OthersKept(FetchedX(chip8))
       /\ chip8'.pc = chip8.pc + 2]_vars

\* 7XFF has wrapped VX = 128 to 127 and register 15 still holds 7
C25_Witness ==
  /\ loaded /\ Running(chip8)
  /\ cycles = 4
  /\ Executed(chip8) = "c8_const_add_num"
  /\ MemRead(chip8, 518) = 112 /\ MemRead(chip8, 519) = 255
  /\ MemRead(chip8, 515) = 128
  /\ chip8.registers[0] = 127
  /\ chip8.registers[15] = 7
  /\ chip8.pc = 520

\* the bits set in the byte v
Bits(v) == {n \in 0 .. 7 : Bit(v, n) = 1}

\* C26: for X # 15, 8XY1/8XY2/8XY3 set VX to VX OR/AND/XOR VY; afterwards
\* register 15 is 0 on the CHIP-8 target and unchanged on the SuperChip targets
\* and XO-Chip.
C26_BitopsAndFlagReset ==
  [][CycleStep /\ FetchedX(chip8) # 15
      /\ Fetched(chip8) \in {"c8_bitop_or_reg", "c8_bitop_and_reg", "c8_bitop_xor_reg"} =>
       LET x == Bits(OperandX(chip8))
           y == Bits(OperandY(chip8))
           h == Fetched(chip8)
       IN /\ Bits(chip8'.registers[FetchedX(chip8)]) =
               (CASE h = "c8_bitop_or_reg" -> x \cup y
                  [] h = "c8_bitop_and_reg" -> x \cap y
                  [] h = "c8_bitop_xor_reg" -> (x \ y) \cup (y \ x))
          /\ chip8'.registers[15] =
               (IF chip8.target = "Chip8" THEN 0 ELSE chip8.registers[15])
          /\ OthersKept(FetchedX(chip8))]_vars

\* on CHIP-8, 8013 has left V0 = 1 XOR 128 and reset register 15 from 7 to 0
C26_Witness ==
  /\ loaded /\ Running(chip8)
  /\ cycles = 4
  /\ chip8.target = "Chip8"
  /\ Executed(chip8) = "c8_bitop_xor_reg"
  /\ MemRead(chip8, 513) = 7
  /\ chip8.registers[0] = 129
  /\ chip8.registers[1] = 128
  /\ chip8.registers[15] = 0

\* C27: for X # 15, 8XY6 sets VX = S div 2 and register 15 = bit 0 of S, and
\* 8XYE sets VX = (2 * S) mod 256 and register 15 = bit 7 of S, where S is VY
\* on CHIP-8 and XO-Chip and VX on the two SuperChip targets.
C27_ShiftsFromTargetSource ==
  [][CycleStep /\ FetchedX(chip8) # 15
      /\ Fetched(chip8) \in {"c8_bitop_shr_reg", "c8_bitop_shl_reg"} =>
       LET S == IF chip8.target \in {"SuperChipLegacy", "SuperChip"}
                THEN OperandX(chip8) ELSE OperandY(chip8)
       IN /\ Fetched(chip8) = "c8_bitop_shr_reg" =>
               /\ chip8'.registers[FetchedX(chip8)] = S \div 2
               /\ chip8'.registers[15] = S % 2
          /\ Fetched(chip8) = "c8_bitop_shl_reg" =>
               /\ chip8'.registers[FetchedX(chip8)] = (2 * S) % 256
               /\ chip8'.registers[15] = (S \div 128) % 2
          /\ OthersKept(FetchedX(chip8))
          /\ chip8'.pc = chip8.pc + 2]_vars

\* on a SuperChip target, 801E has shifted V0 = 255 itself to 254 with register
\* 15 = 1, whatever V1 = 0 held
C27_Witness ==
  /\ loaded /\ Running(chip8)
  /\ cycles = 4
  /\ chip8.target = "SuperChip"
  /\ Executed(chip8) = "c8_bitop_shl_reg"
  /\ MemRead(chip8, 515) = 255
  /\ chip8.registers[0] = 254
  /\ chip8.registers[1] = 0
  /\ chip8.registers[15] = 1

\* C28 as stated: FX1E sets the address register to (I + VX) mod 0x1000, which
\* lies in 0 .. 0xFFF, sets register 15 to 1 exactly when I + VX > 0xFFF and
\* leaves it unchanged otherwise.
C28_AddWrapsToTwelveBits ==
  [][CycleStep /\ Fetched(chip8) = "c8_mem_addi" /\ Running(chip8') =>
       LET sum == chip8.i + OperandX(chip8)
       IN /\ chip8'.i = sum % 4096
          /\ chip8'.i \in 0 .. 4095
          /\ chip8'.registers[15] =
               (IF sum > 4095 THEN 1 ELSE chip8.registers[15])]_vars

\* C29: BNNN sets pc to NNN + V0 on CHIP-8 and XO-Chip and to NNN + VX, X the
\* highest nibble of NNN, on the two SuperChip targets, with no post-increment,
\* and changes no register.
C29_JumpWithOffset ==
  [][CycleStep /\ Fetched(chip8) = "c8_flow_jump" =>
       /\ chip8'.pc =
            (Opcode(chip8) % 4096)
              + (IF chip8.target \in {"SuperChipLegacy", "SuperChip"}
                 THEN chip8.registers[(Opcode(chip8) % 4096) \div 256]
                 ELSE chip8.registers[0])
       /\ chip8'.registers = chip8.registers
       /\ Running(chip8')]_vars

\* on a SuperChip target B1FF has jumped to 0x1FF + V1 = 0x202, not 0x1FF + V0
C29_Witness ==
  /\ loaded /\ Running(chip8)
  /\ cycles = 3
  /\ chip8.target = "SuperChipLegacy"
  /\ MemRead(chip8, 516) = 177 /\ MemRead(chip8, 517) = 255
  /\ chip8.registers[0] = 255
  /\ chip8.registers[1] = 3
  /\ chip8.pc = 514

\* the opcodes that rewrite pc themselves
PcRewriting == {"c8_flow_return", "c8_flow_goto", "c8_flow_gosub", "c8_flow_jump"}

\* C30: a cycle that executes 1NNN or 2NNN leaves pc = NNN exactly; a cycle that
\* executes any recognized opcode outside the four pc-rewriting families leaves
\* pc at the pc of the fetch plus 0, 2 or 4.
C30_PcRewritingOrDelta ==
  [][CycleStep /\ Running(chip8') =>
       /\ (Fetched(chip8) \in {"c8_flow_goto", "c8_flow_gosub"} =>
             chip8'.pc = Opcode(chip8) % 4096)
       /\ (Fetched(chip8) \notin PcRewriting =>
             chip8'.pc \in {chip8.pc, (chip8.pc + 2) % U16_LIMIT,
                            (chip8.pc + 4) % U16_LIMIT})]_vars

\* 1F21 at 0x200 has left pc = 0xF21
C30_Witness ==
  /\ loaded /\ Running(chip8)
  /\ cycles = 1
  /\ MemRead(chip8, 512) = 31 /\ MemRead(chip8, 513) = 33
  /\ chip8.pc = 3873

\* the six skip instructions
SkipSet ==
  {"c8_cond_skip_eq_num", "c8_cond_skip_neq_num", "c8_cond_skip_eq_reg",
   "c8_cond_skipifneq_reg", "c8_key_pressedskip", "c8_key_notpressedskip"}

\* the condition of the skip instruction that the next cycle executes
SkipCondition(c) ==
  LET h == Fetched(c)
      nn == Opcode(c) % 256
  IN CASE h = "c8_cond_skip_eq_num" -> OperandX(c) = nn
       [] h = "c8_cond_skip_neq_num" -> OperandX(c) # nn
       [] h = "c8_cond_skip_eq_reg" -> OperandX(c) = OperandY(c)
       [] h = "c8_cond_skipifneq_reg" -> OperandX(c) # OperandY(c)
       [] h = "c8_key_pressedskip" -> OperandX(c) \in c.key
       [] h = "c8_key_notpressedskip" -> OperandX(c) \notin c.key
       [] OTHER -> FALSE

\* C31 as stated: a skip instruction advances pc by 4 when its condition holds
\* and by 2 otherwise, and changes nothing else.
C31_SkipByFourOrTwo ==
  [][CycleStep /\ Fetched(chip8) \in SkipSet =>
       chip8' = [chip8 EXCEPT !.pc = chip8.pc + (IF SkipCondition(chip8) THEN 4 ELSE 2)]]_vars

\* the DXYN the next cycle executes is the 16x16 form
DrawsSixteenWide(c) ==
  /\ Fetched(c) = "c8_draw_sprite"
  /\ c.target # "Chip8" /\ c.hires /\ LowNibble(Opcode(c)) = 0

\* the sprite pixels (row, column) of the DXYN the next cycle executes
SpritePixels(c) ==
  IF DrawsSixteenWide(c) THEN (0 .. 15) \X (0 .. 15)
  ELSE (0 .. (LowNibble(Opcode(c)) - 1)) \X (0 .. 7)

\* the cell at offset p lies on the effective surface
OnSurface(c, p) ==
  /\ p % Profile(c.target).screen_width < SurfaceWidth(c)
  /\ p \div Profile(c.target).screen_width < SurfaceHeight(c)

\* where the claim places the sprite pixels: clipped at the right and bottom
\* edges, wrapped round them on XO-Chip
PlacedPixels(c) ==
  LET w == SurfaceWidth(c)
      h == SurfaceHeight(c)
      x0 == OperandX(c) % w
      y0 == OperandY(c) % h
  IN IF c.target = "XoChip"
     THEN {((y0 + p[1]) % h) * Profile(c.target).screen_width + ((x0 + p[2]) % w) :
             p \in SpritePixels(c)}
     ELSE {(y0 + p[1]) * Profile(c.target).screen_width + (x0 + p[2]) :
             p \in {q \in SpritePixels(c) : x0 + q[2] < w /\ y0 + q[1] < h}}

\* the cells a step changes
Changed == (chip8'.gfx \ chip8.gfx) \cup (chip8.gfx \ chip8'.gfx)

\* C32: a DXYN that does not fault changes only cells of the effective surface,
\* and only cells where a sprite pixel is placed: at its column and row when
\* both are on the surface and nowhere otherwise on CHIP-8 and SuperChip, at
\* (column mod width, row mod height) on XO-Chip; for the 8-pixel-wide form
\* the changed cells are exactly those under a set sprite bit so placed.
C32_ClipOrWrap ==
  [][CycleStep /\ Fetched(chip8) = "c8_draw_sprite" /\ Running(chip8') =>
       /\ \A p \in Changed : OnSurface(chip8, p)
       /\ Changed \subseteq PlacedPixels(chip8)
       /\ (DrawsEightWide(chip8) => Changed = CellsUnderSprite(chip8))]_vars

\* on CHIP-8 the glyph "0" drawn at column 125 mod 64 = 61 has lost its fourth
\* column at the right edge: nothing is lit in column 0
C32_Witness ==
  /\ loaded /\ Running(chip8)
  /\ cycles = 5
  /\ chip8.target = "Chip8"
  /\ chip8.registers[0] = 125
  /\ chip8.i = 0
  /\ chip8.gfx = {61, 62, 63, 125, 189, 253, 317, 318, 319}

\* the framebuffer of c with every pixel moved by (dx, dy); a pixel that would
\* leave the framebuffer is dropped
Moved(c, dx, dy) ==
  LET W == Profile(c.target).screen_width
      H == Profile(c.target).screen_height
  IN {p + dy * W + dx :
        p \in {q \in c.gfx : /\ (q % W) + dx \in 0 .. (W - 1)
                             /\ (q \div W) + dy \in 0 .. (H - 1)}}

\* C33: 00CN moves every pixel down N rows, 00DN up N rows, 00FB right 4
\* columns and 00FC left 4 columns; a pixel moved past an edge is dropped, not
\* carried into another row, and the vacated cells are unset; each sets the draw
\* flag, advances pc by 2 and changes nothing else.
C33_ScrollsMoveEveryPixel ==
  [][CycleStep =>
       LET h == Fetched(chip8)
           n == LowNibble(Opcode(chip8))
           scrolled(g) == chip8' = [chip8 EXCEPT !.gfx = g, !.draw = TRUE,
                                                 !.pc = chip8.pc + 2]
       IN /\ (h = "sc_scroll_down" => scrolled(Moved(chip8, 0, n)))
          /\ (h = "xo_scroll_up" => scrolled(Moved(chip8, 0, 0 - n)))
          /\ (h = "sc_scroll_right" => scrolled(Moved(chip8, 4, 0)))
          /\ (h = "sc_scroll_left" => scrolled(Moved(chip8, 0 - 4, 0)))]_vars

\* on SuperChip in high resolution the glyph drawn at (125, 61) has been
\* scrolled right: its pixels at columns 125 .. 127 are gone, none has appeared
\* in columns 0 .. 3 of the next row
C33_Witness ==
  /\ loaded /\ Running(chip8)
  /\ cycles = 5
  /\ chip8.target = "SuperChip"
  /\ chip8.hires
  /\ chip8.registers[0] = 125
  /\ MemRead(chip8, 521) = 251
  /\ chip8.gfx = {}
  /\ graphics_needs_refresh(chip8)

\* C34: on the SuperChip variants and XO-Chip 00FF leaves hires true and 00FE
\* leaves it false; when that changes the mode the draw flag is set and XO-Chip
\* alone unsets the whole framebuffer; for the mode already active neither the
\* framebuffer nor the draw flag changes.  On CHIP-8 neither opcode changes
\* hires.
C34_ResolutionSwitch ==
  [][CycleStep /\ Opcode(chip8) \in {254, 255} =>
       LET high == Opcode(chip8) = 255
           switches == chip8.hires # high
       IN IF chip8.target = "Chip8"
          THEN chip8'.hires = chip8.hires
          ELSE chip8' = [chip8 EXCEPT
                 !.hires = high,
                 !.gfx = IF switches /\ chip8.target = "XoChip" THEN {} ELSE @,
                 !.draw = IF switches THEN TRUE ELSE @,
                 !.pc = chip8.pc + 2]]_vars

\* XO-Chip: 00FF, the glyph drawn in high resolution, then 00FE has switched
\* back and emptied the framebuffer
C34_Witness ==
  /\ loaded /\ Running(chip8)
  /\ cycles = 4
  /\ chip8.target = "XoChip"
  /\ MemRead(chip8, 513) = 255
  /\ MemRead(chip8, 519) = 254
  /\ ~chip8.hires
  /\ chip8.gfx = {}
  /\ graphics_needs_refresh(chip8)

\* C35: an FX33 that completes leaves at memory[I], memory[I + 1], memory[I + 2]
\* three digits h, t, o in 0 .. 9 with 100 h + 10 t + o = VX, changes no other
\* memory cell, no register and not the address register, and advances pc by 2.
C35_BcdDigits ==
  [][CycleStep /\ Fetched(chip8) = "c8_bcd_store" /\ Running(chip8') =>
       LET h == MemRead(chip8', chip8.i)
           t == MemRead(chip8', chip8.i + 1)
           o == MemRead(chip8', chip8.i + 2)
       IN /\ {h, t, o} \subseteq 0 .. 9
          /\ 100 * h + 10 * t + o = OperandX(chip8)
          /\ \A a \in ((DOMAIN chip8.memory) \cup (DOMAIN chip8'.memory))
                         \ (chip8.i .. (chip8.i + 2)) :
               MemRead(chip8', a) = MemRead(chip8, a)
          /\ chip8' = [chip8 EXCEPT !.memory = chip8'.memory,
                                    !.pc = chip8.pc + 2]]_vars

\* 6FFF AFFD FF33 on CHIP-8: 2, 5, 5 in the last three cells of memory
C35_Witness ==
  /\ loaded /\ Running(chip8)
  /\ cycles = 3
  /\ chip8.target = "Chip8"
  /\ chip8.registers[15] = 255
  /\ chip8.i = 4093
  /\ MemRead(chip8, 4093) = 2
  /\ MemRead(chip8, 4094) = 5
  /\ MemRead(chip8, 4095) = 5

\* the target waits for the display in low resolution and c is in low resolution
WaitsForDisplay(c) == Profile(c.target).lores_display_wait /\ ~c.hires

\* C36: where the target waits for the display and high resolution is off, a
\* cycle that follows another cycle finds the needs-refresh flag clear: after a
\* cycle that left the flag set the next cycle runs only once the refresh has
\* cleared it.  Where the target does not wait, or in high resolution, a set
\* flag does not end the batch: the next cycle of the batch can still run.
C36_DisplayWaitEndsBatch ==
  /\ [][CycleStep /\ cycles >= 1 /\ WaitsForDisplay(chip8) =>
         ~graphics_needs_refresh(chip8)]_vars
  /\ [](/\ loaded /\ Running(chip8)
        /\ batch \in 1 .. (TICK_CYCLES - 1)
        /\ cycles < MaxCyclesDisplay
        /\ graphics_needs_refresh(chip8)
        /\ ~WaitsForDisplay(chip8)
        => ENABLED Cycle(MaxCyclesDisplay))

\* CHIP-8: the draw, second cycle of its batch, has set the flag and the
\* batch is over
C36_Witness ==
  /\ loaded /\ Running(chip8)
  /\ chip8.target = "Chip8"
  /\ cycles = 3
  /\ batch = 2
  /\ graphics_needs_refresh(chip8)
  /\ chip8.gfx # {}
  /\ ~ENABLED Cycle(MaxCyclesDisplay)

\* the cells under the set bits of a 16 x 16 sprite whose 256 pixels each have
\* a source bit of their own: row r is the two bytes at I + 2 r, most
\* significant bit first
SuperSpriteCells(c) ==
  LET lit == {p \in SpritePixels(c) :
                Bit(MemRead(c, c.i + 2 * p[1] + (p[2] \div 8)), 7 - (p[2] % 8)) = 1}
      w == SurfaceWidth(c)
      h == SurfaceHeight(c)
      x0 == OperandX(c) % w
      y0 == OperandY(c) % h
      seen == IF c.target = "XoChip" THEN lit
              ELSE {p \in lit : x0 + p[2] < w /\ y0 + p[1] < h}
  IN {((y0 + p[1]) % h) * Profile(c.target).screen_width + ((x0 + p[2]) % w) : p \in seen}

\* C37: on the SuperChip variants and XO-Chip in high resolution a DXY0 that
\* completes toggles exactly the cells under the set bits of a 16 x 16 sprite
\* read from memory at I, every pixel from a source bit of its own.
C37_SuperSpriteOwnBits ==
  [][CycleStep /\ DrawsSixteenWide(chip8) /\ Running(chip8') =>
       Changed = SuperSpriteCells(chip8)]_vars

\* the event asks to quit: Event::Quit or a key-down of Escape
AsksToQuit(event) ==
  event.kind = "Quit" \/ (event.kind = "KeyDown" /\ event.scancode = {"Escape"})

\* the event is a non-repeat key-down or key-up of the key numbered k
KeyEventFor(event, k) ==
  /\ event.kind \in {"KeyDown", "KeyUp"}
  /\ ~event.repeat
  /\ \E code \in event.scancode :
       code \in DOMAIN key_scan_mapping /\ key_scan_mapping[code] = k

\* what the delivery of event does to the state c, as the claim has it
Delivered(c, event) ==
  LET r == handle_key(c, event)
  IN /\ AsksToQuit(event) => r.action = "Quit" /\ r.c = c
     /\ \A k \in 0 .. (NUMBER_OF_KEYS - 1) :
          KeyEventFor(event, k) /\ ~AsksToQuit(event) =>
            /\ r.action = "None"
            /\ (k \in r.c.key) = (event.kind = "KeyDown")
            /\ r.c.key \ {k} = c.key \ {k}
            /\ r.c = [c EXCEPT !.key = r.c.key, !.key_wait = r.c.key_wait]
     /\ (~AsksToQuit(event) /\ \A k \in 0 .. (NUMBER_OF_KEYS - 1) : ~KeyEventFor(event, k))
          => r.action = "None" /\ r.c = c

\* C38: in every state the run reaches, a non-repeat key-down or key-up of a
\* mapped key sets that key's entry of the key state to pressed or released,
\* leaves the other 15 entries unchanged and yields no action; a Quit event or
\* a key-down of Escape yields Quit and changes nothing; any other event
\* changes nothing.  The key state changes in no other way (no cycle and no
\* refresh writes it), so each entry is the kind of the latest such event for
\* its key; once Quit is yielded nothing runs any more.
C38_KeyEvents ==
  /\ [](loaded /\ Running(chip8) => \A event \in Events : Delivered(chip8, event))
  /\ [][/\ (chip8'.key # chip8.key =>
              /\ cycles' = cycles /\ batch = 0 /\ batch' = 0
              /\ \E event \in Events, k \in 0 .. (NUMBER_OF_KEYS - 1) :
                   /\ KeyEventFor(event, k)
                   /\ chip8' = handle_key(chip8, event).c)
        /\ action = "None"
        /\ (action' = "Quit" => chip8' = chip8)]_vars

\* during the wait key 1 was pressed, then keys 0 and 15, key 1 was released
\* again, then a Quit event arrived: the key state is kept and Quit is yielded
C38_Witness ==
  /\ loaded /\ Running(chip8)
  /\ chip8.key = {0, 15}
  /\ chip8.key_wait = Captured(1)
  /\ action = "Quit"

\* C39: a cycle that fetches 00FD on a SuperChip or XO-Chip target has the
\* core return Quit, and the loop of the driver receives it and ends the run:
\* nothing runs after it, no host event needed.
C39_QuitOpcodeEndsRun ==
  [][CycleStep /\ Fetched(chip8) = "quit" =>
       /\ chip8.target # "Chip8"
       /\ \A oc \in BOOLEAN : emulate_cycle_action(chip8, oc) = "Quit"
       /\ action' = "Quit"]_vars

\* the key-wait state after the event (k, pressed) is delivered in state c, as
\* the claim has it: the armed wait records the first press, the release of the
\* recorded key captures it, and nothing else changes the state
AfterEvent(c, k, pressed) ==
  IF c.key_wait = Armed /\ pressed THEN Pressed(k)
  ELSE IF c.key_wait = Pressed(k) /\ ~pressed THEN Captured(k)
  ELSE c.key_wait

\* C40: in every state the run reaches, a press or release of any key moves
\* the key-wait state as follows: idle stays idle; armed records the key of a
\* press and ignores a release (a key held since before the wait is not
\* captured); with key j recorded, only the release of j captures it, a press
\* or release of another key changes nothing.  A cycle executing FX0A arms an
\* idle wait without reading the held keys, leaves an armed or recorded wait as
\* it is, and only on a captured key j writes j to VX, returns to idle and
\* advances pc by 2; no other cycle and no refresh changes the key-wait state.
C40_KeyWaitUnderInterleaving ==
  /\ [](loaded /\ Running(chip8) =>
          \A k \in WaitKeys, pressed \in BOOLEAN :
            set_key(chip8, k, pressed).key_wait = AfterEvent(chip8, k, pressed))
  /\ [][/\ (CycleStep /\ Fetched(chip8) = "c8_key_wait" =>
              IF \E j \in 0 .. (NUMBER_OF_KEYS - 1) : chip8.key_wait = Captured(j)
              THEN \E j \in chip8.key_wait[2] :
                     chip8' = [chip8 EXCEPT !.registers[FetchedX(chip8)] = j,
                                            !.key_wait = Idle,
                                            !.pc = chip8.pc + 2]
              ELSE IF chip8.key_wait = Idle
              THEN chip8' = [chip8 EXCEPT !.key_wait = Armed]
              ELSE chip8' = chip8)
        /\ (CycleStep /\ Fetched(chip8) # "c8_key_wait" =>
              chip8'.key_wait = chip8.key_wait)
        /\ (RefreshStep => chip8'.key_wait = chip8.key_wait)
        /\ (HostStep /\ ~RefreshStep =>
              \E k \in WaitKeys, pressed \in BOOLEAN :
                chip8'.key_wait = AfterEvent(chip8, k, pressed))]_vars

\* the wait into V0 has completed with key 1 while keys 0 and 2 are held
C40_Witness ==
  /\ loaded /\ Running(chip8)
  /\ cycles = 3
  /\ chip8.pc = 516
  /\ chip8.registers[0] = 1
  /\ chip8.key = {0, 2}
  /\ chip8.key_wait = Idle

====
